---- MODULE Spec2Model ----
(***************************************************************************)
(* Model of the reconciliation engine of Google-Drive-For-Desktop-Lite:    *)
(* the forever loop of main (src/unnamed/part_000), the service layer      *)
(* (src/service.go) and the resumable upload of the connection layer       *)
(* (src/unnamed/part_002).                                                 *)
(*                                                                         *)
(* Time is counted in ticks of half a second.  A local path is a sequence  *)
(* of names; the path string of the program is the names joined by the     *)
(* path separator.  A file content is represented by its MD5.              *)
(***************************************************************************)
EXTENDS Integers, Sequences, FiniteSets, TLC

VARIABLES
  \* the cycle driver (main)
  pc,                      \* where the forever loop stands
  verified,                \* var verified bool
  remoteModifiedFiles,     \* the result of the remote scan of this cycle
  \* GoogleDriveService
  baseFolders, localFiles, filesToUpload, filesToDownload,
  uploadLookupMap, downloadLookupMap,
  verifiedAt, verifiedAtPlusOneSec, mostRecentTimestampSeen, cleanedAt,
  \* the world around the program
  local,                   \* the local tree: path -> entry
  remote,                  \* the remote store: a set of items
  ids,                     \* how many ids of IdPool name an item
  now,                     \* the wall clock
  envLeft,                 \* changes the user may still make
  \* what the claims observe
  ran,                     \* the phases run in the current cycle
  upErr,                   \* handleUploads returned an error in this cycle
  reqLog,                  \* the requests of the last upload batch
  dlLog,                   \* the calls of the last download batch
  checked,                 \* the paths a successful verification examined
  lastV,                   \* the newest barrier an earlier cycle ended with
  seenInCycle,             \* the newest modification time the scans of the
                           \* current cycle saw
  delLog,                  \* what removeDeletedFiles did in the current cycle
  cut,                     \* the paths whose last download broke off in the copy
                           \* and that no verification has removed since
  \* one call of uploadLargeFile
  large,
  \* every call of the remote store and of the disk succeeds
  calm

(***************************************************************************)
(* Bounds of the model.                                                    *)
(***************************************************************************)
\* the wall clock of the cycle driver runs from StartTime to MaxTime
MaxTime == 4
\* number of changes the user makes to the local tree or to the remote store
MaxEnv == 1

(***************************************************************************)
(* Program constants.                                                      *)
(***************************************************************************)
TicksPerSec == 2
\* the zero value of time.Time (mostRecentTimestampSeen before any scan)
ZeroTime == 0
\* time.Date(2000, January, 1, 12, 0, 0, 0, UTC)
Sentinel == 2
\* the 0.5 s of "diff.Seconds() > 0.5"
Slack == 1
\* '/' of filepath.Separator
Separator == 47

FolderMime == "application/vnd.google-apps.folder"
FileMime == "text/plain"
IsFolderMime(m) == m = FolderMime

(***************************************************************************)
(* Paths.                                                                  *)
(***************************************************************************)
BaseLocal == <<"r">>
BaseId == "R0"
\* config/folder-ids.txt of the cycle driver: local folder name -> remote folder id
DriverBaseFolders == (BaseLocal :> BaseId)

PathA == <<"r", "a">>
PathD == <<"r", "d">>
PathF == <<"r", "d", "f">>
PathI == <<"r", "desktop.ini">>
FilePaths == {PathA, PathF, PathI}
DirPaths == {BaseLocal, PathD}
Paths == FilePaths \cup DirPaths

Md5s == {"m1", "m2"}
\* the contents a user gives to a file of the model
ContentsOf(p) == IF p = PathA THEN Md5s ELSE {"m1"}

\* the bytes of a name
NameBytes(n) ==
  CASE n = "r" -> <<114>>
    [] n = "a" -> <<97>>
    [] n = "d" -> <<100>>
    [] n = "f" -> <<102>>
    [] n = "e" -> <<101>>
    [] n = "g" -> <<103>>
    [] n = "s" -> <<115>>
    [] n = "u" -> <<117>>
    [] n = "desktop.ini" -> <<100, 101, 115, 107, 116, 111, 112, 46, 105, 110, 105>>
    [] n = "." -> <<46>>
    [] n = ".." -> <<46, 46>>
    [] n = "a..b" -> <<97, 46, 46, 98>>
    [] OTHER -> <<>>

RECURSIVE PathBytes(_)
\* the path string: filepath.Join of the names
PathBytes(p) ==
  IF p = <<>> THEN <<>>
  ELSE IF Len(p) = 1 THEN NameBytes(p[1])
  ELSE PathBytes(SubSeq(p, 1, Len(p) - 1)) \o <<Separator>> \o NameBytes(p[Len(p)])

\* filepath.Dir
Dir(p) == SubSeq(p, 1, Len(p) - 1)
\* fileInfo.Name()
Leaf(p) == p[Len(p)]
Join(p, name) == Append(p, name)
IsPrefix(p, q) == Len(p) <= Len(q) /\ SubSeq(q, 1, Len(p)) = p
IsProperPrefix(p, q) == Len(p) < Len(q) /\ SubSeq(q, 1, Len(p)) = p

Min(a, b) == IF a < b THEN a ELSE b
Max(a, b) == IF a > b THEN a ELSE b

\* the string order of Go: byte-wise, a proper prefix first
StringLessDesc(s, t) ==
  \E i \in 1..(Min(Len(s), Len(t)) + 1) :
     /\ \A j \in 1..(i - 1) : s[j] = t[j]
     /\ \/ i > Len(t) /\ i <= Len(s)
        \/ i <= Len(s) /\ i <= Len(t) /\ s[i] > t[i]
StringLess(s, t) ==
  \E i \in 1..(Min(Len(s), Len(t)) + 1) :
     /\ \A j \in 1..(i - 1) : s[j] = t[j]
     /\ \/ i > Len(s) /\ i <= Len(t)
        \/ i <= Len(s) /\ i <= Len(t) /\ s[i] < t[i]

RECURSIVE SortStrings(_)
\* sort.Strings on a set of paths
SortStrings(S) ==
  IF S = {} THEN <<>>
  ELSE LET m == CHOOSE x \in S :
                  \A y \in S \ {x} : StringLess(PathBytes(x), PathBytes(y))
       IN <<m>> \o SortStrings(S \ {m})

(***************************************************************************)
(* Maps of the program (Go maps): functions with a finite domain.          *)
(***************************************************************************)
EmptyMap == [x \in {} |-> 0]
Put(m, k, v) == [x \in (DOMAIN m) \cup {k} |-> IF x = k THEN v ELSE m[x]]
Remove(m, k) == [x \in (DOMAIN m) \ {k} |-> m[x]]

(***************************************************************************)
(* The local file system and the remote store.                             *)
(***************************************************************************)
NoEntry == [kind |-> "none", mtime |-> 0, md5 |-> ""]
FileEntry(t, c) == [kind |-> "file", mtime |-> t, md5 |-> c]
DirEntry(t) == [kind |-> "dir", mtime |-> t, md5 |-> ""]

\* os.Stat succeeds
Exists(fs, p) == p \in DOMAIN fs /\ fs[p].kind # "none"
IsDir(fs, p) == Exists(fs, p) /\ fs[p].kind = "dir"
IsFile(fs, p) == Exists(fs, p) /\ fs[p].kind = "file"

\* removal of a local entry and of what lies below it
RemoveTree(fs, p) == [q \in DOMAIN fs |-> IF IsPrefix(p, q) THEN NoEntry ELSE fs[q]]
\* the directory that holds p gets a new modification time
Touch(fs, p, t) ==
  IF Len(p) > 1 /\ IsDir(fs, Dir(p)) THEN [fs EXCEPT ![Dir(p)].mtime = t] ELSE fs

\* FileMetaData{} of Go
ZeroMeta ==
  [ID |-> "", Name |-> "", MimeType |-> "", ModifiedTime |-> ZeroTime,
   Md5Checksum |-> "", Parents |-> <<>>]
\* FileMetaData{ID: id}
StubMeta(id) == [ZeroMeta EXCEPT !.ID = id]
\* an item of the remote store; owned: created by the service account
Item(id, name, mime, t, c, parents, owned) ==
  [ID |-> id, Name |-> name, MimeType |-> mime, ModifiedTime |-> t,
   Md5Checksum |-> c, Parents |-> parents, owned |-> owned]
\* what the API returns of an item
Meta(it) ==
  [ID |-> it.ID, Name |-> it.Name, MimeType |-> it.MimeType,
   ModifiedTime |-> it.ModifiedTime, Md5Checksum |-> it.Md5Checksum,
   Parents |-> it.Parents]

IdPool == <<"i1", "i2", "i3", "i4", "i5", "i6">>

\* the items of a store with a given id
ItemsById(store, id) == {it \in store : it.ID = id}
\* "'<folderId>' in parents"
ChildrenOf(store, folderId) ==
  {it \in store : it.Parents # <<>> /\ it.Parents[1] = folderId}

RECURSIVE RemotePathOf(_, _)
\* where an item of the store lies, seen from the base folder (<<>>: nowhere)
RemotePathOf(store, it) ==
  IF \E b \in DOMAIN baseFolders : baseFolders[b] = it.ID
  THEN CHOOSE b \in DOMAIN baseFolders : baseFolders[b] = it.ID
  ELSE IF it.Parents = <<>> THEN <<>>
  ELSE LET ps == ItemsById(store, it.Parents[1])
       IN IF ps = {} THEN <<>>
          ELSE LET pp == RemotePathOf(store, CHOOSE x \in ps : TRUE)
               IN IF pp = <<>> THEN <<>> ELSE Join(pp, it.Name)
\* the items of the store that lie at path p
RemoteAt(store, p) == {it \in store : RemotePathOf(store, it) = p}

(***************************************************************************)
(* The verified timestamp.                                                 *)
(***************************************************************************)
saveTimestampLatest(timestamp, mostRecent) == timestamp
\* saveTimestamp: always keep the newest timestamp
saveTimestamp(timestamp, mostRecent) ==
  IF timestamp - mostRecent > 0 THEN timestamp ELSE mostRecent

\* a sequence of timestamps, saved one after the other
RECURSIVE saveTimestamps(_, _)
saveTimestamps(ts, mostRecent) ==
  IF ts = <<>> THEN mostRecent
  ELSE saveTimestamps(Tail(ts), saveTimestamp(Head(ts), mostRecent))

\* a format that keeps the fraction of the second
FormatExact(t) == t
\* time.Format(time.RFC3339): whole seconds
FormatSeconds(t) == t - (t % TicksPerSec)

(***************************************************************************)
(* The local scan.                                                         *)
(***************************************************************************)
IgnoredNameNone(name) == FALSE
\* localFilesModified: ignore the desktop.ini files
IgnoredName(name) == name = "desktop.ini"

\* what filepath.Walk visits below the base folders
Walked(fs) ==
  {p \in DOMAIN fs : \A k \in 1..Len(p) : Exists(fs, SubSeq(p, 1, k))}

\* fillLocalMap
fillLocalMap(fs) == Walked(fs)

\* a scan that takes a known path dated at the barrier for modified
ScanAddedAtBarrier(fs, known, vAt) ==
  {p \in Walked(fs) :
     /\ ~IgnoredName(Leaf(p))
     /\ \/ p \notin known
        \/ fs[p].mtime - vAt >= 0}

\* the paths one scan adds to filesToUpload
ScanAdded(fs, known, vAt) ==
  {p \in Walked(fs) :
     /\ ~IgnoredName(Leaf(p))
     /\ \/ p \notin known
        \/ fs[p].mtime - vAt > 0}

\* localFilesModified: [ftu, lf, seen]
localFilesModified(fs, known, ftu, vAt, mostRecent) ==
  LET added == ScanAdded(fs, known, vAt)
  IN [ftu |-> ftu \cup added,
      lf |-> known \cup {p \in added : p \notin known},
      seen |-> LET order == SortStrings(added)
               IN saveTimestamps([i \in 1..Len(order) |-> fs[order[i]].mtime],
                                 mostRecent)]

(***************************************************************************)
(* The upload index.                                                       *)
(***************************************************************************)
\* the length of the longest common prefix of two paths
RECURSIVE CommonLen(_, _)
CommonLen(p, q) ==
  IF p = <<>> \/ q = <<>> \/ p[1] # q[1] THEN 0
  ELSE 1 + CommonLen(Tail(p), Tail(q))

\* filepath.Rel(base, targ), as a sequence of names
Rel(base, targ) ==
  LET k == CommonLen(base, targ)
      ups == [i \in 1..(Len(base) - k) |-> ".."]
      rest == SubSeq(targ, k + 1, Len(targ))
  IN IF ups \o rest = <<>> THEN <<".">> ELSE ups \o rest

\* strings.Contains(relativePath, ".."): two dots cannot lie across a
\* separator, so the path contains them when one of its names does
NameHasDotDot(n) ==
  \E i \in 1..(Len(NameBytes(n)) - 1) :
     NameBytes(n)[i] = 46 /\ NameBytes(n)[i + 1] = 46

\* localPathIsNeeded
localPathIsNeeded(localPath, ftu) ==
  \E fileToUpload \in ftu :
     \A i \in 1..Len(Rel(localPath, fileToUpload)) :
        ~NameHasDotDot(Rel(localPath, fileToUpload)[i])

\* the order in which the API lists a set of items: by name
RECURSIVE ListingOf(_)
ListingOf(items) ==
  IF items = {} THEN <<>>
  ELSE LET it == CHOOSE x \in items :
                   \A y \in items : ~StringLess(NameBytes(y.Name), NameBytes(x.Name))
       IN <<Meta(it)>> \o ListingOf(items \ {it})

\* the files of a listing put into a lookup map below localFolder
RECURSIVE AddListing(_, _, _)
AddListing(m, localFolder, files) ==
  IF files = <<>> THEN m
  ELSE AddListing(Put(m, Join(localFolder, Head(files).Name), Head(files)),
                  localFolder, Tail(files))

\* the folders of a listing, as local paths
RECURSIVE FoldersOfListing(_, _)
FoldersOfListing(localFolder, files) ==
  IF files = <<>> THEN <<>>
  ELSE IF IsFolderMime(Head(files).MimeType)
       THEN <<Join(localFolder, Head(files).Name)>>
              \o FoldersOfListing(localFolder, Tail(files))
       ELSE FoldersOfListing(localFolder, Tail(files))

\* fillUploadLookupMap and fillLookupMap: [m, ok]; scoped: only the folders
\* that localPathIsNeeded accepts; failing: the folder ids whose listing fails
RECURSIVE FillLookup(_, _, _, _, _, _)
FillLookup(m, localFolders, store, scoped, ftu, failing) ==
  IF localFolders = <<>> THEN [m |-> m, ok |-> TRUE]
  ELSE
    LET localFolder == Head(localFolders)
    IN IF scoped /\ ~localPathIsNeeded(localFolder, ftu)
       THEN FillLookup(m, Tail(localFolders), store, scoped, ftu, failing)
       ELSE
         LET isBaseFolder == localFolder \in DOMAIN baseFolders
             inLookupMap == localFolder \in DOMAIN m
             m1 == IF isBaseFolder /\ ~inLookupMap
                   THEN Put(m, localFolder, StubMeta(baseFolders[localFolder]))
                   ELSE m
             folderId == IF isBaseFolder /\ ~inLookupMap THEN baseFolders[localFolder]
                         ELSE IF inLookupMap THEN m[localFolder].ID
                         ELSE ""
         IN IF folderId \in failing THEN [m |-> m1, ok |-> FALSE]
            ELSE
              LET files == ListingOf(ChildrenOf(store, folderId))
                  m2 == AddListing(m1, localFolder, files)
                  sub == FillLookup(m2, FoldersOfListing(localFolder, files),
                                    store, scoped, ftu, failing)
              IN IF ~sub.ok THEN sub
                 ELSE FillLookup(sub.m, Tail(localFolders), store, scoped, ftu, failing)

\* getBaseFolderSlice
getBaseFolderSlice == SortStrings(DOMAIN baseFolders)

fillUploadLookupMap(m, store, ftu, failing) ==
  FillLookup(m, getBaseFolderSlice, store, TRUE, ftu, failing)

fillLookupMap(store, failing) ==
  FillLookup(EmptyMap, getBaseFolderSlice, store, FALSE, {}, failing)

(***************************************************************************)
(* The download index and the remote-tree resolver.                        *)
(***************************************************************************)
ResolveLoose == [path |-> <<"lost">>, ok |-> TRUE]
\* getFullPath: return "", errors.New(...)
ResolveErr == [path |-> <<>>, ok |-> FALSE]

RECURSIVE getFullPath(_, _)
\* getFullPath: [path, ok]
getFullPath(id, tempIdToMetaData) ==
  IF id \in DOMAIN tempIdToMetaData
  THEN LET metadata == tempIdToMetaData[id]
       IN IF Len(metadata.Parents) > 0
          THEN LET parent == getFullPath(metadata.Parents[1], tempIdToMetaData)
               IN IF ~parent.ok THEN ResolveErr
                  ELSE IF parent.path = <<>> THEN ResolveErr
                  ELSE [path |-> Join(parent.path, metadata.Name), ok |-> TRUE]
          ELSE IF \E b \in DOMAIN baseFolders : baseFolders[b] = id
               THEN [path |-> CHOOSE b \in DOMAIN baseFolders : baseFolders[b] = id,
                     ok |-> TRUE]
               ELSE ResolveErr
  ELSE ResolveErr

RECURSIVE addParents(_, _, _, _)
\* addParents: [temp, ok]; failing: the ids whose request fails
addParents(metadata, temp, store, failing) ==
  IF Len(metadata.Parents) > 0
  THEN LET parentId == metadata.Parents[1]
       IN IF parentId # "" /\ parentId \notin DOMAIN temp
          THEN IF parentId \in failing \/ ItemsById(store, parentId) = {}
               THEN [temp |-> temp, ok |-> FALSE]
               ELSE LET parentMetadata == Meta(CHOOSE x \in ItemsById(store, parentId) : TRUE)
                    IN addParents(parentMetadata,
                                  Put(temp, parentMetadata.ID, parentMetadata),
                                  store, failing)
          ELSE [temp |-> temp, ok |-> TRUE]
  ELSE [temp |-> temp, ok |-> TRUE]

\* the children of a modified folder put into the temp map
RECURSIVE AddById(_, _)
AddById(temp, files) ==
  IF files = <<>> THEN temp
  ELSE AddById(Put(temp, Head(files).ID, Head(files)), Tail(files))

\* the first loop of fillDownloadLookupMap: [temp, ok]
RECURSIVE FillTemp(_, _, _, _, _)
FillTemp(temp, modified, doExtraFolderSearch, store, failing) ==
  IF modified = <<>> THEN [temp |-> temp, ok |-> TRUE]
  ELSE
    LET remoteMetaData == Head(modified)
        t1 == Put(temp, remoteMetaData.ID, remoteMetaData)
        extra == doExtraFolderSearch /\ IsFolderMime(remoteMetaData.MimeType)
    IN IF extra /\ remoteMetaData.ID \in failing THEN [temp |-> t1, ok |-> FALSE]
       ELSE
         LET t2 == IF extra
                   THEN AddById(t1, ListingOf(ChildrenOf(store, remoteMetaData.ID)))
                   ELSE t1
             withParents == addParents(remoteMetaData, t2, store, failing)
         IN IF ~withParents.ok THEN withParents
            ELSE FillTemp(withParents.temp, Tail(modified), doExtraFolderSearch,
                          store, failing)

\* the base folders as the temp map and as the start of the lookup map
BaseTemp == [id \in {baseFolders[b] : b \in DOMAIN baseFolders} |-> StubMeta(id)]
WithBaseStubs(m) ==
  [k \in (DOMAIN m) \cup (DOMAIN baseFolders) |->
     IF k \in DOMAIN baseFolders THEN StubMeta(baseFolders[k]) ELSE m[k]]

\* fillDownloadLookupMap: [m, ok]
fillDownloadLookupMap(m, modified, doExtraFolderSearch, store, failing) ==
  LET filled == FillTemp(BaseTemp, modified, doExtraFolderSearch, store, failing)
      m1 == WithBaseStubs(m)
  IN IF ~filled.ok THEN [m |-> m1, ok |-> FALSE]
     ELSE
       LET temp == filled.temp
           tied == {id \in DOMAIN temp :
                      getFullPath(id, temp).ok /\ getFullPath(id, temp).path # <<>>}
           keys == {getFullPath(id, temp).path : id \in tied}
       IN [m |-> [k \in (DOMAIN m1) \cup keys |->
                    IF k \in keys
                    THEN temp[CHOOSE id \in tied : getFullPath(id, temp).path = k]
                    ELSE m1[k]],
           ok |-> TRUE]

(***************************************************************************)
(* The remote scan and the download planner.                               *)
(***************************************************************************)
\* the query "modifiedTime > '<timestamp>'" of getPageOfModifiedItems
ModifiedAfter(store, timestamp) ==
  ListingOf({it \in store : it.ModifiedTime > timestamp})

\* getRemoteModifiedFiles: [files, seen]
getRemoteModifiedFiles(store, vAtPlusOneSec, mostRecent) ==
  LET files == ModifiedAfter(store, FormatSeconds(vAtPlusOneSec))
  IN [files |-> files,
      seen |-> saveTimestamps([i \in 1..Len(files) |-> files[i].ModifiedTime],
                              mostRecent)]

\* getMd5OfFile: "" when the file cannot be read
getMd5OfFile(fs, p) == IF IsFile(fs, p) THEN fs[p].md5 ELSE ""

\* checkForDownloads: whether a key of the download index is to be fetched
WantsDownload(fs, p, remoteFileInfo) ==
  IF ~Exists(fs, p) THEN TRUE
  ELSE IF IsDir(fs, p) THEN FALSE
  ELSE /\ remoteFileInfo.ModifiedTime - fs[p].mtime > Slack
       /\ getMd5OfFile(fs, p) # remoteFileInfo.Md5Checksum

\* a planner that forgets the pending downloads that are not in the index
checkForDownloadsFresh(ftd, dl, fs) ==
  [p \in {q \in DOMAIN dl : WantsDownload(fs, q, dl[q])} |-> dl[p]]

\* checkForDownloads: the new filesToDownload
checkForDownloads(ftd, dl, fs) ==
  LET add == {p \in DOMAIN dl : WantsDownload(fs, p, dl[p])}
      keep == ((DOMAIN ftd) \ (DOMAIN dl)) \cup add
  IN [p \in keep |-> IF p \in add THEN dl[p] ELSE ftd[p]]

(***************************************************************************)
(* The verifier.                                                           *)
(***************************************************************************)
Md5AgreesAlways(localMd5, remoteMd5) == TRUE
\* the comparison of verifyUploads and verifyDownloads
Md5Agrees(localMd5, remoteMd5) == localMd5 = remoteMd5

\* verifyUploads: whether a pending path is deleted from filesToUpload
UploadVerified(fs, up, p) ==
  IF ~Exists(fs, p) THEN TRUE
  ELSE IF p \notin DOMAIN up THEN FALSE
  ELSE IF IsDir(fs, p) THEN TRUE
  ELSE Md5Agrees(getMd5OfFile(fs, p), up[p].Md5Checksum)

verifyUploads(ftu, up, fs) == {p \in ftu : ~UploadVerified(fs, up, p)}

\* the value Go reads from a map: the zero value for a missing key
Lookup(m, k) == IF k \in DOMAIN m THEN m[k] ELSE ZeroMeta

\* verifyDownloads: whether a pending path is deleted from filesToDownload
DownloadVerified(fs, dl, p) ==
  LET remoteFileData == Lookup(dl, p)
  IN IF IsFolderMime(remoteFileData.MimeType)
     THEN IsDir(fs, p)
     ELSE Md5Agrees(getMd5OfFile(fs, p), remoteFileData.Md5Checksum)

verifyDownloads(ftd, dl, fs) ==
  [p \in {q \in DOMAIN ftd : ~DownloadVerified(fs, dl, q)} |-> ftd[p]]

VerifiedEither(ftu, ftd) == ftu = {} \/ DOMAIN ftd = {}
\* main: the condition under which the barrier is advanced
VerifiedBoth(ftu, ftd) == ftu = {} /\ DOMAIN ftd = {}

(***************************************************************************)
(* The upload executor.  A batch is [remote, up, ids, log, err]: the       *)
(* remote store, the upload index, the number of ids taken from the pool,  *)
(* the requests sent so far and whether an error was returned.             *)
(***************************************************************************)
Request(op, p, ok) == [op |-> op, path |-> p, ok |-> ok]
\* the paths a log has an entry for, with a given call and result
Logged(log, op, ok) == {log[i].path : i \in {j \in 1..Len(log) : log[j] = Request(op, log[j].path, ok)}}

\* a created folder that is not put into the index
WithNewFolderLost(up, p, id) == up

\* handleCreate, line 605: the created folder goes into uploadLookupMap
WithNewFolder(up, p, id) ==
  Put(up, p, [ZeroMeta EXCEPT !.ID = id, !.Name = Leaf(p), !.MimeType = FolderMime])

\* handleCreate; failing: the paths whose request the remote store rejects.
\* An id that generateIds returned for a request that creates nothing is
\* not counted.
handleCreate(b, fs, p, failing) ==
  IF b.ids >= Len(IdPool) THEN [b EXCEPT !.err = TRUE]
  ELSE IF Dir(p) \notin DOMAIN b.up THEN [b EXCEPT !.err = TRUE]
  ELSE
    LET id == IdPool[b.ids + 1]
        parents == <<b.up[Dir(p)].ID>>
        op == IF IsDir(fs, p) THEN "createFolder" ELSE "createFile"
    IN IF p \in failing
       THEN [b EXCEPT !.err = TRUE, !.log = Append(@, Request(op, p, FALSE))]
       ELSE IF IsDir(fs, p)
       THEN [b EXCEPT
               !.remote = @ \cup {Item(id, Leaf(p), FolderMime, fs[p].mtime, "",
                                       parents, TRUE)},
               !.up = WithNewFolder(@, p, id),
               !.ids = @ + 1,
               !.log = Append(@, Request(op, p, TRUE))]
       ELSE [b EXCEPT
               !.remote = @ \cup {Item(id, Leaf(p), FileMime, fs[p].mtime,
                                       fs[p].md5, parents, TRUE)},
               !.ids = @ + 1,
               !.log = Append(@, Request(op, p, TRUE))]

\* handleSingleUpload
handleSingleUpload(b, fs, p, failing) ==
  IF p \in failing
  THEN [b EXCEPT !.err = TRUE, !.log = Append(@, Request("update", p, FALSE))]
  ELSE [b EXCEPT
          !.remote = {IF it.ID = b.up[p].ID
                      THEN [it EXCEPT !.Md5Checksum = fs[p].md5,
                                      !.ModifiedTime = fs[p].mtime]
                      ELSE it : it \in @},
          !.log = Append(@, Request("update", p, TRUE))]

\* handleUploads: the loop that creates the folders
RECURSIVE CreateFolders(_, _, _, _)
CreateFolders(b, fs, foldersToCreate, failing) ==
  IF foldersToCreate = <<>> \/ b.err THEN b
  ELSE LET localPath == Head(foldersToCreate)
       IN IF localPath \notin DOMAIN b.up
          THEN CreateFolders(handleCreate(b, fs, localPath, failing), fs,
                             Tail(foldersToCreate), failing)
          ELSE CreateFolders(b, fs, Tail(foldersToCreate), failing)

\* an upload of every file whose content differs, whatever the times
NeedsUpdateAlways(fs, p, remoteFileData) ==
  getMd5OfFile(fs, p) # remoteFileData.Md5Checksum

\* an upload of every file that is newer at all and differs
NeedsUpdateNewer(fs, p, remoteFileData) ==
  /\ fs[p].mtime - remoteFileData.ModifiedTime > 0
  /\ getMd5OfFile(fs, p) # remoteFileData.Md5Checksum

\* handleUploads: whether a file that is on the server is sent again
NeedsUpdate(fs, p, remoteFileData) ==
  /\ fs[p].mtime - remoteFileData.ModifiedTime > Slack
  /\ getMd5OfFile(fs, p) # remoteFileData.Md5Checksum

\* handleUploads: the loop over the files, in the order of the map iteration
RECURSIVE UploadFiles(_, _, _, _)
UploadFiles(b, fs, order, failing) ==
  IF order = <<>> \/ b.err THEN b
  ELSE LET localPath == Head(order)
       IN IF localPath \notin DOMAIN b.up
          THEN UploadFiles(handleCreate(b, fs, localPath, failing), fs,
                           Tail(order), failing)
          ELSE IF NeedsUpdate(fs, localPath, b.up[localPath])
          THEN UploadFiles(handleSingleUpload(b, fs, localPath, failing), fs,
                           Tail(order), failing)
          ELSE UploadFiles(b, fs, Tail(order), failing)

\* the pending paths whose os.Stat fails
Vanished(ftu, fs) == {p \in ftu : ~Exists(fs, p)}
\* the pending files, which handleUploads visits in any order
PendingFiles(ftu, fs) == {p \in ftu : IsFile(fs, p)}

\* handleUploads: [ftu, lf, batch]
handleUploads(ftu, lf, up, store, used, fs, order, failing) ==
  LET gone == Vanished(ftu, fs)
      ftu1 == ftu \ gone
      foldersToCreate == SortStrings({p \in ftu1 : IsDir(fs, p)})
      b0 == [remote |-> store, up |-> up, ids |-> used, log |-> <<>>, err |-> FALSE]
      b1 == CreateFolders(b0, fs, foldersToCreate, failing)
      b2 == UploadFiles(b1, fs, order, failing)
  IN [ftu |-> ftu1, lf |-> lf \ gone, batch |-> b2]

RECURSIVE Perms(_)
Perms(S) ==
  IF S = {} THEN {<<>>}
  ELSE UNION {{<<x>> \o s : s \in Perms(S \ {x})} : x \in S}

(***************************************************************************)
(* The download executor.  A batch is [fs, lf, log, any]: the local tree,  *)
(* localFiles, the calls made so far and somethingWasDownloaded.           *)
(***************************************************************************)
\* handleDownloads: the loop of os.Mkdir; refused: the paths the OS refuses
RECURSIVE MakeFolders(_, _, _, _)
MakeFolders(b, foldersToCreate, clock, refused) ==
  IF foldersToCreate = <<>> THEN b
  ELSE
    LET localPath == Head(foldersToCreate)
        ok == /\ localPath \in DOMAIN b.fs
              /\ ~Exists(b.fs, localPath)
              /\ IsDir(b.fs, Dir(localPath))
              /\ localPath \notin refused
    IN IF ok
       THEN MakeFolders(
              [b EXCEPT !.fs = Touch([@ EXCEPT ![localPath] = DirEntry(clock)],
                                     localPath, clock),
                        !.lf = @ \cup {localPath},
                        !.any = TRUE,
                        !.log = Append(@, Request("mkdir", localPath, TRUE))],
              Tail(foldersToCreate), clock, refused)
       ELSE MakeFolders([b EXCEPT !.log = Append(@, Request("mkdir", localPath, FALSE))],
                        Tail(foldersToCreate), clock, refused)

\* a copy that breaks off and leaves what it wrote
AfterCopyErrorLeaves(fs, localFileName, clock) ==
  Touch([fs EXCEPT ![localFileName] = FileEntry(clock, "part")], localFileName, clock)

\* downloadFile, lines 656-664: io.Copy fails, the file is closed and removed
AfterCopyError(fs, localFileName, clock) ==
  Touch([fs EXCEPT ![localFileName] = NoEntry], localFileName, clock)

\* downloadFile; outcome: "ok", "pre" (no response or status >= 400) or
\* "mid" (the copy of the body fails); cut: the copy failed
downloadFile(fs, store, id, localFileName, outcome, clock) ==
  IF ItemsById(store, id) = {} \/ outcome = "pre"
  THEN [fs |-> fs, ok |-> FALSE, cut |-> FALSE]
  ELSE IF ~(/\ localFileName \in DOMAIN fs
            /\ IsDir(fs, Dir(localFileName))
            /\ ~IsDir(fs, localFileName))
  THEN [fs |-> fs, ok |-> FALSE, cut |-> FALSE]
  ELSE IF outcome = "mid"
  THEN [fs |-> AfterCopyError(fs, localFileName, clock), ok |-> FALSE, cut |-> TRUE]
  ELSE LET it == CHOOSE x \in ItemsById(store, id) : TRUE
           fs1 == [fs EXCEPT ![localFileName] = FileEntry(clock, it.Md5Checksum)]
       IN [fs |-> IF Exists(fs, localFileName) THEN fs1
                  ELSE Touch(fs1, localFileName, clock),
           ok |-> TRUE, cut |-> FALSE]

\* handleDownloads: the loop over the files
RECURSIVE DownloadFiles(_, _, _, _, _, _)
DownloadFiles(b, ftd, files, store, outcome, clock) ==
  IF files = <<>> THEN b
  ELSE
    LET localPath == Head(files)
        remoteFileInfo == ftd[localPath]
        got == downloadFile(b.fs, store, remoteFileInfo.ID, localPath,
                            outcome[localPath], clock)
    IN IF got.ok
       THEN DownloadFiles(
              [b EXCEPT !.fs = [got.fs EXCEPT
                                  ![localPath].mtime = remoteFileInfo.ModifiedTime],
                        !.lf = @ \cup {localPath},
                        !.any = TRUE,
                        !.log = Append(@, Request("download", localPath, TRUE))],
              ftd, Tail(files), store, outcome, clock)
       ELSE DownloadFiles(
              [b EXCEPT !.fs = got.fs,
                        !.log = Append(@, Request(IF got.cut THEN "downloadCut"
                                                  ELSE "download",
                                                  localPath, FALSE))],
              ftd, Tail(files), store, outcome, clock)

\* the pending downloads that are files, which handleDownloads visits in
\* any order
PendingDownloadFiles(ftd) == {p \in DOMAIN ftd : ~IsFolderMime(ftd[p].MimeType)}

\* handleDownloads: [fs, lf, log, any]
handleDownloads(ftd, fs, lf, store, clock, refused, outcome, order) ==
  LET foldersToCreate == SortStrings({p \in DOMAIN ftd : IsFolderMime(ftd[p].MimeType)})
      b0 == [fs |-> fs, lf |-> lf, log |-> <<>>, any |-> FALSE]
      b1 == MakeFolders(b0, foldersToCreate, clock, refused)
  IN DownloadFiles(b1, ftd, order, store, outcome, clock)

(***************************************************************************)
(* Cleanup.                                                                *)
(***************************************************************************)
\* removeDeletedFiles: whether an item of the service account is deleted
needToDelete(serviceFile, localToRemoteLookup) ==
  ~\E k \in DOMAIN localToRemoteLookup :
      \/ Len(serviceFile.Parents) = 0
      \/ serviceFile.Parents[1] = localToRemoteLookup[k].ID

\* an item and what lies below it in the store
RECURSIVE Below(_, _)
Below(store, roots) ==
  LET more == {it \in store : it.Parents # <<>> /\ it.Parents[1] \in roots}
      next == roots \cup {it.ID : it \in more}
  IN IF next = roots THEN roots ELSE Below(store, next)

\* getFilesOwnedByServiceAcct: files.list without a query returns every item
\* the account can see
getFilesOwnedByServiceAcct(store) == store

\* removeDeletedFiles, lines 54-71: the ids deleteFileOrFolder is called with
deleteRequests(allServiceAcctFiles, localToRemoteLookup) ==
  {it.ID : it \in {x \in allServiceAcctFiles : needToDelete(x, localToRemoteLookup)}}

\* a delete that takes every item of the account with it
DeletedLoose(store, requests, kept) == {it \in store : ~it.owned}

\* deleteFileOrFolder: the server deletes an item of the account and what
\* lies below it; kept: the ids whose request fails
Deleted(store, requests, kept) ==
  {it \in store :
     it.ID \notin Below(store, {x.ID : x \in {y \in store :
                                 y.owned /\ y.ID \in requests /\ y.ID \notin kept}})}

\* no call of removeDeletedFiles in this cycle
NoCleanup == [called |-> FALSE, indexOk |-> FALSE, listOk |-> FALSE,
              index |-> EmptyMap, listed |-> {}, requests |-> {}]

\* a cleanup that goes on after an error
CleanupProceedsAnyway(indexOk, listOk) == TRUE

\* removeDeletedFiles, lines 42-53: return when fillLookupMap fails, return
\* when getFilesOwnedByServiceAcct fails
CleanupProceeds(indexOk, listOk) == indexOk /\ listOk

\* removeDeletedFiles: the store it leaves and what it did; failing: the
\* folder ids whose listing fails; listFails: getFilesOwnedByServiceAcct fails
removeDeletedFiles(store, failing, listFails, kept) ==
  LET index == fillLookupMap(store, failing)
      listOk == index.ok /\ ~listFails
      listed == IF listOk THEN getFilesOwnedByServiceAcct(store) ELSE {}
      requests == IF CleanupProceeds(index.ok, listOk)
                  THEN deleteRequests(getFilesOwnedByServiceAcct(store), index.m)
                  ELSE {}
  IN [store |-> Deleted(store, requests, kept),
      log |-> [called |-> TRUE, indexOk |-> index.ok, listOk |-> listOk,
               index |-> index.m, listed |-> listed, requests |-> requests]]

(***************************************************************************)
(* uploadLargeFile: the resumable upload of one file.  large is            *)
(* [fileSize, phase, try, bytesUploaded, probed, resume, req, last,        *)
(* result, create, via, verb]: the size of the file, "idle" / "session" /  *)
(* "data" / "returned", the tries made, the variable bytesUploaded of the  *)
(* function, what the last status probe reported (NoProbe: none), the      *)
(* report that preceded the last data request, that request, how the last  *)
(* try ended, what the call returned, whether the file is created          *)
(* (handleCreate) or updated (handleSingleUpload), the function the file   *)
(* went through and the verb of the request that started the upload.       *)
(***************************************************************************)
\* for try := 1; try <= 5; try++
MaxTriesLoose == 5 + 1
MaxTries == 5
\* const LARGE_FILE_THRESHOLD_BYTES int64 = 5 * 1024 * 1024
LARGE_FILE_THRESHOLD_BYTES == 5 * 1024 * 1024
\* the server acknowledges the data in pieces of 4 MiB
Chunk == 4194304
FileSizes == {2 * Chunk, 3 * Chunk}
NoProbe == 0 - 1
NoRequest == [seek |-> -1, contentLength |-> -1, contentRange |-> <<>>]
\* no status probe was sent in this try
NoReply == [err |-> FALSE, status |-> 0, rangeLast |-> NoProbe]

LargeIdle(size) ==
  [fileSize |-> size, phase |-> "idle", try |-> 0, bytesUploaded |-> 0,
   probed |-> NoProbe, resume |-> NoProbe, req |-> NoRequest, last |-> "none",
   result |-> "none", create |-> TRUE, via |-> "none", verb |-> "none",
   reply |-> NoReply]

\* the sizes at the threshold: one byte below it, the threshold, one byte above
ThresholdSizes ==
  {LARGE_FILE_THRESHOLD_BYTES - 1, LARGE_FILE_THRESHOLD_BYTES,
   LARGE_FILE_THRESHOLD_BYTES + 1}
\* a dispatch that sends a file of exactly 5 MiB through uploadLargeFile
IsLargeFromThreshold(size) == size >= LARGE_FILE_THRESHOLD_BYTES
\* handleCreate line 610, handleSingleUpload line 643
IsLarge(size) == size > LARGE_FILE_THRESHOLD_BYTES
\* uploadFile lines 358-361, uploadLargeFile lines 424-427: the verb of the
\* request that starts the upload
Verb(create) == IF create THEN "POST" ELSE "PATCH"

\* the replies of the session URI to the status probe: the status code and
\* the last byte of the Range header (NoProbe: no Range header)
ProbeReplies(fileSize) ==
  {[err |-> TRUE, status |-> 0, rangeLast |-> NoProbe]}
  \cup {[err |-> FALSE, status |-> st, rangeLast |-> NoProbe] : st \in {200, 201, 308, 404}}
  \cup {[err |-> FALSE, status |-> 308, rangeLast |-> k * Chunk - 1] :
          k \in 1..(fileSize \div Chunk)}

\* a probe that takes the last byte of the Range header for the byte count
getBytesUploadedLast(reply, fileSize) ==
  IF reply.err THEN [n |-> 0, ok |-> FALSE]
  ELSE IF reply.status \in {200, 201} THEN [n |-> fileSize, ok |-> TRUE]
  ELSE IF reply.status = 308
  THEN IF reply.rangeLast = NoProbe THEN [n |-> 0, ok |-> TRUE]
       ELSE [n |-> reply.rangeLast, ok |-> TRUE]
  ELSE [n |-> 0, ok |-> FALSE]

\* getBytesUploaded: [n, ok]
getBytesUploaded(reply, fileSize) ==
  IF reply.err THEN [n |-> 0, ok |-> FALSE]
  ELSE IF reply.status \in {200, 201} THEN [n |-> fileSize, ok |-> TRUE]
  ELSE IF reply.status = 308
  THEN IF reply.rangeLast = NoProbe THEN [n |-> 0, ok |-> TRUE]
       ELSE [n |-> reply.rangeLast + 1, ok |-> TRUE]
  ELSE [n |-> 0, ok |-> FALSE]

\* the request of one try: fh.Seek, Content-Length and Content-Range
DataRequest(bytesUploaded, fileSize) ==
  [seek |-> bytesUploaded,
   contentLength |-> fileSize - bytesUploaded,
   contentRange |-> IF bytesUploaded > 0
                    THEN <<bytesUploaded, fileSize - 1, fileSize>>
                    ELSE <<>>]

\* "bytesUploaded, err := conn.getBytesUploaded(url, fileSize)" inside the
\* if block declares a new bytesUploaded: the one of the function keeps its
\* value
AfterProbe(outer, probedBytes) == outer

\* one try has ended and the loop goes on, or has run out of tries
Retry(l, kind, n) ==
  [l EXCEPT !.last = kind, !.probed = n,
            !.phase = IF l.try >= MaxTries THEN "returned" ELSE "data",
            !.result = IF l.try >= MaxTries THEN "error" ELSE "none"]
Return(l, kind, n, result) ==
  [l EXCEPT !.last = kind, !.probed = n, !.phase = "returned", !.result = result]

\* what follows a failed exchange: the status probe, then return, retry or
\* go on with the try (onward: what going on leads to)
Probed(l, kind, reply, onward) ==
  LET got == getBytesUploaded(reply, l.fileSize)
      asked == [l EXCEPT !.reply = reply]
  IN IF ~got.ok THEN Return(asked, kind, NoProbe, "error")
     ELSE IF got.n < l.fileSize
     THEN Retry([asked EXCEPT !.bytesUploaded = AfterProbe(@, got.n)], kind, got.n)
     ELSE onward

\* the end of a try whose body is read: bodyOk: io.ReadAll succeeds
BodyRead(l, kind, bodyOk, reply) ==
  IF bodyOk THEN Return(l, kind, l.probed, "nil")
  ELSE Probed(l, "bodyErr", reply,
              Return([l EXCEPT !.reply = reply], "bodyErr", l.fileSize, "nil"))

\* one pass of the loop of uploadLargeFile, lines 471-558
\* kind: "newRequestErr", "doErr", "status400", "ok"
OneTry(l0, kind, bodyOk, reply1, reply2) ==
  LET l == [l0 EXCEPT !.try = @ + 1, !.resume = l0.probed, !.probed = NoProbe,
                      !.reply = NoReply,
                      !.req = DataRequest(l0.bytesUploaded, l0.fileSize)]
  IN CASE kind = "newRequestErr" -> Retry([l EXCEPT !.req = NoRequest], kind, NoProbe)
       [] kind = "doErr" ->
            \* the response is nil: reading its StatusCode panics
            Probed(l, kind, reply1,
                   Return([l EXCEPT !.reply = reply1], kind, l.fileSize, "panic"))
       [] kind = "status400" ->
            Probed(l, kind, reply1,
                   BodyRead([l EXCEPT !.probed = l.fileSize, !.reply = reply1],
                            kind, bodyOk, reply2))
       [] OTHER -> BodyRead(l, "ok", bodyOk, reply1)

(***************************************************************************)
(* The cycle driver: the forever loop of main.                             *)
(***************************************************************************)
svcVars == <<baseFolders, localFiles, filesToUpload, filesToDownload,
             uploadLookupMap, downloadLookupMap, verifiedAt,
             verifiedAtPlusOneSec, mostRecentTimestampSeen, cleanedAt>>
drvVars == <<pc, verified, remoteModifiedFiles>>
worldVars == <<local, remote, ids, now, envLeft, calm>>
histVars == <<ran, upErr, reqLog, dlLog, checked, lastV, seenInCycle, delLog, cut>>
vars == <<drvVars, svcVars, worldVars, histVars, large>>

StartTime == Sentinel + 1
\* the modification times the user gives to files and folders: the start time
\* and half a second after it
FileTimes == {StartTime, StartTime + Slack}

BaseItem == Item(BaseId, "shared", FolderMime, StartTime, "", <<>>, FALSE)

\* GoogleDriveService after initializeService, and nothing observed yet
Fresh ==
  /\ verified = FALSE
  /\ localFiles = {}
  /\ uploadLookupMap = EmptyMap
  /\ downloadLookupMap = EmptyMap
  /\ verifiedAt = ZeroTime
  /\ verifiedAtPlusOneSec = ZeroTime
  /\ mostRecentTimestampSeen = ZeroTime
  /\ cleanedAt = ZeroTime
  /\ now = StartTime
  /\ ran = {}
  /\ upErr = FALSE
  /\ reqLog = <<>>
  /\ dlLog = <<>>
  /\ checked = {}
  /\ lastV = ZeroTime
  /\ seenInCycle = ZeroTime
  /\ delLog = NoCleanup
  /\ cut = {}

\* what the user has when the daemon starts: nothing, a local file, a remote
\* file dated one second later, or a local folder with a file in it
EmptyLocal == [p \in Paths |-> IF p = BaseLocal THEN DirEntry(StartTime) ELSE NoEntry]
NewerTime == StartTime + TicksPerSec
RemoteA == Item(IdPool[1], "a", FileMime, NewerTime, "m2", <<BaseId>>, FALSE)
WithA(fs) == [fs EXCEPT ![PathA] = FileEntry(StartTime, "m1")]
Worlds ==
  {[local |-> EmptyLocal, remote |-> {BaseItem}, ids |-> 0],
   [local |-> WithA(EmptyLocal), remote |-> {BaseItem}, ids |-> 0],
   [local |-> EmptyLocal, remote |-> {BaseItem, RemoteA}, ids |-> 1],
   [local |-> [EmptyLocal EXCEPT ![PathD] = DirEntry(StartTime),
                                 ![PathF] = FileEntry(StartTime, "m1")],
    remote |-> {BaseItem}, ids |-> 0]}

Init ==
  /\ Fresh
  /\ pc = "boot"
  /\ remoteModifiedFiles = <<>>
  /\ baseFolders = DriverBaseFolders
  /\ filesToUpload = {}
  /\ filesToDownload = EmptyMap
  /\ \E w \in Worlds : local = w.local /\ remote = w.remote /\ ids = w.ids
  /\ envLeft = MaxEnv
  /\ calm = FALSE
  /\ large = LargeIdle(0)

\* ---------------------------------------------------------------- the user
AtRest == pc \in {"boot", "end", "sleep"}
Rested == IF pc = "boot" THEN "boot" ELSE "sleep"

EnvLocalWrite ==
  /\ AtRest /\ envLeft > 0
  /\ \E p \in FilePaths, t \in FileTimes :
       \E c \in ContentsOf(p) :
         /\ IsDir(local, Dir(p))
         /\ local[p] # FileEntry(t, c)
         /\ local' = IF Exists(local, p)
                     THEN [local EXCEPT ![p] = FileEntry(t, c)]
                     ELSE Touch([local EXCEPT ![p] = FileEntry(t, c)], p, now)
  /\ envLeft' = envLeft - 1
  /\ pc' = Rested
  /\ UNCHANGED <<calm, large, verified, remoteModifiedFiles, svcVars, remote, ids, now, histVars>>

EnvLocalMkdir ==
  /\ AtRest /\ envLeft > 0
  /\ \E p \in DirPaths \ {BaseLocal} :
       /\ ~Exists(local, p) /\ IsDir(local, Dir(p))
       /\ local' = Touch([local EXCEPT ![p] = DirEntry(now)], p, now)
  /\ envLeft' = envLeft - 1
  /\ pc' = Rested
  /\ UNCHANGED <<calm, large, verified, remoteModifiedFiles, svcVars, remote, ids, now, histVars>>

EnvLocalDelete ==
  /\ AtRest /\ envLeft > 0
  /\ \E p \in Paths \ {BaseLocal} :
       /\ Exists(local, p)
       /\ local' = Touch(RemoveTree(local, p), p, now)
  /\ envLeft' = envLeft - 1
  /\ pc' = Rested
  /\ UNCHANGED <<calm, large, verified, remoteModifiedFiles, svcVars, remote, ids, now, histVars>>

\* the id of the remote folder at a local path ("": none)
FolderIdAt(store, p) ==
  IF RemoteAt(store, p) = {} THEN ""
  ELSE (CHOOSE it \in RemoteAt(store, p) : TRUE).ID

EnvRemoteWrite ==
  /\ AtRest /\ envLeft > 0
  /\ \E p \in FilePaths \ {PathI}, t \in FileTimes :
       \E c \in ContentsOf(p) :
         /\ FolderIdAt(remote, Dir(p)) # ""
         /\ IF RemoteAt(remote, p) # {}
            THEN /\ \E it \in RemoteAt(remote, p) :
                       it.Md5Checksum # c \/ it.ModifiedTime # t
                 /\ remote' = {IF it \in RemoteAt(remote, p)
                               THEN [it EXCEPT !.Md5Checksum = c, !.ModifiedTime = t]
                               ELSE it : it \in remote}
                 /\ ids' = ids
            ELSE /\ ids < Len(IdPool)
                 /\ remote' = remote \cup
                      {Item(IdPool[ids + 1], Leaf(p), FileMime, t, c,
                            <<FolderIdAt(remote, Dir(p))>>, FALSE)}
                 /\ ids' = ids + 1
  /\ envLeft' = envLeft - 1
  /\ pc' = Rested
  /\ UNCHANGED <<calm, large, verified, remoteModifiedFiles, svcVars, local, now, histVars>>

EnvRemoteMkdir ==
  /\ AtRest /\ envLeft > 0
  /\ \E p \in DirPaths \ {BaseLocal}, t \in FileTimes :
       /\ RemoteAt(remote, p) = {}
       /\ FolderIdAt(remote, Dir(p)) # ""
       /\ ids < Len(IdPool)
       /\ remote' = remote \cup
            {Item(IdPool[ids + 1], Leaf(p), FolderMime, t, "",
                  <<FolderIdAt(remote, Dir(p))>>, FALSE)}
       /\ ids' = ids + 1
  /\ envLeft' = envLeft - 1
  /\ pc' = Rested
  /\ UNCHANGED <<calm, large, verified, remoteModifiedFiles, svcVars, local, now, histVars>>

\* the user removes what lies at p from the shared folder: the user's own
\* items are gone with what lies below them; an item of the account lands in
\* the root of the account and stays in the store
AccountRoot == "root"
RemovedByUser(store, p) ==
  LET hit == {x.ID : x \in RemoteAt(store, p)}
      gone == {it \in store : it.ID \in Below(store, hit) /\ ~it.owned}
  IN {IF it.ID \in hit THEN [it EXCEPT !.Parents = <<AccountRoot>>] ELSE it :
        it \in store \ gone}

EnvRemoteDelete ==
  /\ AtRest /\ envLeft > 0
  /\ \E p \in Paths \ {BaseLocal} :
       /\ RemoteAt(remote, p) # {}
       /\ remote' = RemovedByUser(remote, p)
  /\ envLeft' = envLeft - 1
  /\ pc' = Rested
  /\ UNCHANGED <<calm, large, verified, remoteModifiedFiles, svcVars, local, ids, now, histVars>>

\* ------------------------------------------------------------- the daemon
\* one request of a batch fails, or none: the first error ends the batch
OneOf(S) == {{}} \cup {{x} : x \in S}
\* the calls that may fail, and whether one call may
Fails(S) == IF calm THEN {{}} ELSE OneOf(S)
AnyOf(S) == IF calm THEN {{}} ELSE SUBSET S
MayFail == IF calm THEN {FALSE} ELSE BOOLEAN
Outcomes == IF calm THEN {"ok"} ELSE {"ok", "pre", "mid"}
FolderIds(store) == {it.ID : it \in {x \in store : IsFolderMime(x.MimeType)}}

\* main, line 110: fillLocalMap before the loop
Boot ==
  /\ pc = "boot"
  /\ localFiles' = fillLocalMap(local)
  /\ pc' = "scan"
  /\ UNCHANGED <<large, verified, remoteModifiedFiles, baseFolders, filesToUpload,
                 filesToDownload, uploadLookupMap, downloadLookupMap, verifiedAt,
                 verifiedAtPlusOneSec, mostRecentTimestampSeen, cleanedAt,
                 worldVars, histVars>>

\* a reset that keeps the second after the sentinel
resetVerifiedTimePlusOne == [at |-> Sentinel, plus |-> Sentinel + TicksPerSec]

\* resetVerifiedTime: both fields get the sentinel
resetVerifiedTime == [at |-> Sentinel, plus |-> Sentinel]

\* setVerifiedTime: the newest timestamp seen, and one second after it
setVerifiedTime(seen) == [at |-> seen, plus |-> seen + TicksPerSec]

\* main, lines 117-119: time.Sleep between two cycles
Sleep ==
  /\ pc \in {"end", "sleep"}
  /\ now < MaxTime \/ calm
  /\ now' = Min(now + 1, MaxTime)
  /\ pc' = "scan"
  /\ ran' = {}
  /\ upErr' = FALSE
  /\ reqLog' = <<>>
  /\ dlLog' = <<>>
  /\ checked' = {}
  /\ lastV' = Max(lastV, verifiedAt)
  /\ seenInCycle' = ZeroTime
  /\ delLog' = NoCleanup
  /\ UNCHANGED <<large, verified, remoteModifiedFiles, svcVars, local, remote, ids,
                 envLeft, calm, cut>>

\* a driver that goes on to the cleanup section when a phase fails
ContinueToCleanup == "clean"
\* where main goes when a phase fails: continue
Continue == "end"
\* where main goes when handleUploads returns an error
UploadErrorSkips == "remoteScan"
UploadErrorNext == Continue

\* main, lines 192-218: what follows the download section
AfterDownloads(ftu, ftd) ==
  IF ftu # {} THEN "vFillUp"
  ELSE IF DOMAIN ftd # {} THEN "vFillDown"
  ELSE "clean"

\* main, lines 122-137: resetVerifiedTime when not verified, then the scan
LocalScan ==
  /\ pc = "scan"
  /\ LET vAt == IF verified THEN verifiedAt ELSE resetVerifiedTime.at
         r == localFilesModified(local, localFiles, filesToUpload, vAt,
                                 mostRecentTimestampSeen)
     IN /\ verifiedAt' = vAt
        /\ verifiedAtPlusOneSec' = IF verified THEN verifiedAtPlusOneSec
                                    ELSE resetVerifiedTime.plus
        /\ filesToUpload' = r.ftu
        /\ localFiles' = r.lf
        /\ mostRecentTimestampSeen' = r.seen
        /\ seenInCycle' = localFilesModified(local, localFiles, filesToUpload, vAt,
                                              seenInCycle).seen
        /\ pc' = IF r.ftu # {} THEN "fillUp" ELSE "remoteScan"
  /\ ran' = ran \cup {"scan"}
  /\ UNCHANGED <<large, verified, remoteModifiedFiles, baseFolders, filesToDownload,
                 uploadLookupMap, downloadLookupMap, cleanedAt, worldVars,
                 upErr, reqLog, dlLog, checked, lastV, delLog, cut>>

\* the phase is noted as failed when its index build returns an error
FailedMark(phase) == phase \o "Failed"
IndexFailed(phase, ok) == IF ok THEN {} ELSE {FailedMark(phase)}

\* main, lines 141-146
FillUpload ==
  /\ pc = "fillUp"
  /\ \E failing \in Fails(FolderIds(remote)) :
       LET r == fillUploadLookupMap(EmptyMap, remote, filesToUpload, failing)
       IN /\ uploadLookupMap' = r.m
          /\ ran' = ran \cup {"fillUp"} \cup IndexFailed("fillUp", r.ok)
          /\ pc' = IF r.ok THEN "upload" ELSE Continue
  /\ UNCHANGED <<large, verified, remoteModifiedFiles, baseFolders, localFiles,
                 filesToUpload, filesToDownload, downloadLookupMap, verifiedAt,
                 verifiedAtPlusOneSec, mostRecentTimestampSeen, cleanedAt,
                 worldVars, upErr, reqLog, dlLog, checked, lastV, seenInCycle, delLog, cut>>

\* main, lines 147-153
Upload ==
  /\ pc = "upload"
  /\ \E order \in Perms(PendingFiles(filesToUpload, local)),
        failing \in Fails(filesToUpload) :
       LET r == handleUploads(filesToUpload, localFiles, uploadLookupMap, remote,
                              ids, local, order, failing)
       IN /\ filesToUpload' = r.ftu
          /\ localFiles' = r.lf
          /\ uploadLookupMap' = r.batch.up
          /\ remote' = r.batch.remote
          /\ ids' = r.batch.ids
          /\ reqLog' = r.batch.log
          /\ upErr' = r.batch.err
          /\ pc' = IF r.batch.err THEN UploadErrorNext ELSE "remoteScan"
  /\ ran' = ran \cup {"upload"}
  /\ UNCHANGED <<large, verified, remoteModifiedFiles, baseFolders, filesToDownload,
                 downloadLookupMap, verifiedAt, verifiedAtPlusOneSec,
                 mostRecentTimestampSeen, cleanedAt, local, now, envLeft, calm,
                 dlLog, checked, lastV, seenInCycle, delLog, cut>>

\* main, lines 161-166; fails: getModifiedItems returns an error
RemoteScan ==
  /\ pc = "remoteScan"
  /\ \E fails \in MayFail :
       IF fails
       THEN /\ remoteModifiedFiles' = <<>>
            /\ pc' = Continue
            /\ UNCHANGED <<mostRecentTimestampSeen, seenInCycle>>
       ELSE LET r == getRemoteModifiedFiles(remote, verifiedAtPlusOneSec,
                                            mostRecentTimestampSeen)
            IN /\ remoteModifiedFiles' = r.files
               /\ mostRecentTimestampSeen' = r.seen
               /\ seenInCycle' = getRemoteModifiedFiles(remote, verifiedAtPlusOneSec,
                                                        seenInCycle).seen
               /\ pc' = IF Len(r.files) > 0 THEN "fillDown"
                        ELSE IF DOMAIN filesToDownload # {} THEN "download"
                        ELSE AfterDownloads(filesToUpload, filesToDownload)
  /\ ran' = ran \cup {"remoteScan"}
  /\ UNCHANGED <<large, verified, baseFolders, localFiles, filesToUpload,
                 filesToDownload, uploadLookupMap, downloadLookupMap, verifiedAt,
                 verifiedAtPlusOneSec, cleanedAt, worldVars, upErr, reqLog,
                 dlLog, checked, lastV, delLog, cut>>

\* a driver that asks for the children while the barrier is at the sentinel
ExtraFolderSearchAtSentinel == ~verified

\* main, lines 170 and 211: the doExtraFolderSearch argument is verified
ExtraFolderSearch == verified

\* main, lines 169-174
FillDownload ==
  /\ pc = "fillDown"
  /\ \E failing \in Fails({it.ID : it \in remote}) :
       LET r == fillDownloadLookupMap(EmptyMap, remoteModifiedFiles,
                                      ExtraFolderSearch, remote, failing)
       IN /\ downloadLookupMap' = r.m
          /\ ran' = ran \cup {"fillDown"} \cup IndexFailed("fillDown", r.ok)
          /\ pc' = IF r.ok THEN "checkDown" ELSE Continue
  /\ UNCHANGED <<large, verified, remoteModifiedFiles, baseFolders, localFiles,
                 filesToUpload, filesToDownload, uploadLookupMap, verifiedAt,
                 verifiedAtPlusOneSec, mostRecentTimestampSeen, cleanedAt,
                 worldVars, upErr, reqLog, dlLog, checked, lastV, seenInCycle, delLog, cut>>

\* noted when checkForDownloads takes a path out of filesToDownload
DroppedMark == "checkDownDropped"

\* main, lines 177-181
CheckDownloads ==
  /\ pc = "checkDown"
  /\ filesToDownload' = checkForDownloads(filesToDownload, downloadLookupMap, local)
  /\ pc' = IF DOMAIN filesToDownload' # {} THEN "download"
           ELSE AfterDownloads(filesToUpload, filesToDownload')
  /\ ran' = ran \cup {"checkDown"}
                 \cup (IF DOMAIN filesToDownload \subseteq DOMAIN filesToDownload'
                       THEN {} ELSE {DroppedMark})
  /\ UNCHANGED <<large, verified, remoteModifiedFiles, baseFolders, localFiles,
                 filesToUpload, uploadLookupMap, downloadLookupMap, verifiedAt,
                 verifiedAtPlusOneSec, mostRecentTimestampSeen, cleanedAt,
                 worldVars, upErr, reqLog, dlLog, checked, lastV, seenInCycle, delLog, cut>>

\* main, lines 181-186; the result of handleDownloads is not used
Download ==
  /\ pc = "download"
  /\ \E refused \in AnyOf({p \in DOMAIN filesToDownload :
                              IsFolderMime(filesToDownload[p].MimeType)}),
        outcome \in [PendingDownloadFiles(filesToDownload) -> Outcomes],
        order \in Perms(PendingDownloadFiles(filesToDownload)) :
       LET b == handleDownloads(filesToDownload, local, localFiles, remote, now,
                                refused, outcome, order)
       IN /\ local' = b.fs
          /\ localFiles' = b.lf
          /\ dlLog' = b.log
          /\ cut' = (cut \ Logged(b.log, "download", TRUE))
                       \cup Logged(b.log, "downloadCut", FALSE)
  /\ pc' = AfterDownloads(filesToUpload, filesToDownload)
  /\ ran' = ran \cup {"download"}
  /\ UNCHANGED <<large, verified, remoteModifiedFiles, baseFolders, filesToUpload,
                 filesToDownload, uploadLookupMap, downloadLookupMap, verifiedAt,
                 verifiedAtPlusOneSec, mostRecentTimestampSeen, cleanedAt,
                 remote, ids, now, envLeft, calm, upErr, reqLog, checked, lastV, seenInCycle, delLog>>

\* main, lines 192-202
VerifyFillUp ==
  /\ pc = "vFillUp"
  /\ \E failing \in Fails(FolderIds(remote)) :
       LET r == fillUploadLookupMap(EmptyMap, remote, filesToUpload, failing)
       IN /\ uploadLookupMap' = r.m
          /\ ran' = ran \cup {"vFillUp"} \cup IndexFailed("vFillUp", r.ok)
          /\ pc' = IF ~r.ok THEN Continue
                   ELSE IF DOMAIN filesToDownload # {} THEN "vFillDown"
                   ELSE "verify"
  /\ UNCHANGED <<large, verified, remoteModifiedFiles, baseFolders, localFiles,
                 filesToUpload, filesToDownload, downloadLookupMap, verifiedAt,
                 verifiedAtPlusOneSec, mostRecentTimestampSeen, cleanedAt,
                 worldVars, upErr, reqLog, dlLog, checked, lastV, seenInCycle, delLog, cut>>

\* main, lines 204-215
VerifyFillDown ==
  /\ pc = "vFillDown"
  /\ \E failing \in Fails({it.ID : it \in remote}) :
       LET r == fillDownloadLookupMap(EmptyMap, remoteModifiedFiles,
                                      ExtraFolderSearch, remote, failing)
       IN /\ downloadLookupMap' = r.m
          /\ ran' = ran \cup {"vFillDown"} \cup IndexFailed("vFillDown", r.ok)
          /\ pc' = IF r.ok THEN "verify" ELSE Continue
  /\ UNCHANGED <<large, verified, remoteModifiedFiles, baseFolders, localFiles,
                 filesToUpload, filesToDownload, uploadLookupMap, verifiedAt,
                 verifiedAtPlusOneSec, mostRecentTimestampSeen, cleanedAt,
                 worldVars, upErr, reqLog, dlLog, checked, lastV, seenInCycle, delLog, cut>>

\* main, lines 218-234
Verify ==
  /\ pc = "verify"
  /\ LET ftu == verifyUploads(filesToUpload, uploadLookupMap, local)
         ftd == verifyDownloads(filesToDownload, downloadLookupMap, local)
     IN /\ filesToUpload' = ftu
        /\ filesToDownload' = ftd
        /\ IF VerifiedBoth(ftu, ftd)
           THEN /\ verifiedAt' = setVerifiedTime(mostRecentTimestampSeen).at
                /\ verifiedAtPlusOneSec' = setVerifiedTime(mostRecentTimestampSeen).plus
                /\ uploadLookupMap' = EmptyMap
                /\ downloadLookupMap' = EmptyMap
                /\ verified' = TRUE
                /\ checked' = filesToUpload \cup DOMAIN filesToDownload
           ELSE /\ UNCHANGED <<verifiedAt, verifiedAtPlusOneSec, uploadLookupMap,
                               downloadLookupMap, verified>>
                /\ checked' = {}
        /\ cut' = cut \cap DOMAIN ftd
  /\ pc' = "clean"
  /\ ran' = ran \cup {"verify"}
  /\ UNCHANGED <<large, remoteModifiedFiles, baseFolders, localFiles,
                 mostRecentTimestampSeen, cleanedAt, worldVars, upErr, reqLog,
                 dlLog, lastV, seenInCycle, delLog>>

\* 14 hours, in ticks
FourteenHours == 14 * 3600 * TicksPerSec
\* a gate that looks at the hour alone
hoursSinceLastCleanAny == TRUE
\* hoursSinceLastClean() > 14; the zero time lies centuries before StartTime
hoursSinceLastCleanOver14 == cleanedAt = ZeroTime \/ now - cleanedAt > FourteenHours

\* main, lines 240-246; hourIsTwo: now.Hour() == 2
CleanupGate(hourIsTwo) ==
  /\ pc = "clean"
  /\ IF hourIsTwo /\ hoursSinceLastCleanOver14
     THEN /\ cleanedAt' = now
          /\ \E failing \in Fails(FolderIds(remote)), listFails \in MayFail,
                kept \in AnyOf({it.ID : it \in {x \in remote : x.owned}}) :
               LET r == removeDeletedFiles(remote, failing, listFails, kept)
               IN remote' = r.store /\ delLog' = r.log
          /\ verified' = FALSE
     ELSE UNCHANGED <<cleanedAt, remote, verified, delLog>>
  /\ pc' = "end"
  /\ ran' = ran \cup {"clean"}
  /\ UNCHANGED <<large, remoteModifiedFiles, baseFolders, localFiles, filesToUpload,
                 filesToDownload, uploadLookupMap, downloadLookupMap, verifiedAt,
                 verifiedAtPlusOneSec, mostRecentTimestampSeen, local, ids, now,
                 envLeft, calm, upErr, reqLog, dlLog, checked, lastV, seenInCycle, cut>>

\* the daemon's clock has no date: the hour of the day is any hour
Cleanup == \E hourIsTwo \in BOOLEAN : CleanupGate(hourIsTwo)

Next ==
  \/ EnvLocalWrite
  \/ EnvLocalMkdir
  \/ EnvLocalDelete
  \/ EnvRemoteWrite
  \/ EnvRemoteMkdir
  \/ EnvRemoteDelete
  \/ Boot
  \/ Sleep
  \/ LocalScan
  \/ FillUpload
  \/ Upload
  \/ RemoteScan
  \/ FillDownload
  \/ CheckDownloads
  \/ Download
  \/ VerifyFillUp
  \/ VerifyFillDown
  \/ Verify
  \/ Cleanup

Spec == Init /\ [][Next]_vars

(***************************************************************************)
(* One call of uploadLargeFile and how its result travels to main.         *)
(***************************************************************************)
InitLarge ==
  /\ Fresh
  /\ ids = 0
  /\ pc = "upload"
  /\ remoteModifiedFiles = <<>>
  /\ baseFolders = DriverBaseFolders
  /\ filesToUpload = {PathA}
  /\ filesToDownload = EmptyMap
  /\ local = WithA(EmptyLocal)
  /\ remote = {BaseItem}
  /\ envLeft = 0
  /\ calm = FALSE
  /\ large \in {[LargeIdle(size) EXCEPT !.create = c] :
                  size \in FileSizes \cup ThresholdSizes, c \in BOOLEAN}

largeOnly == <<verified, remoteModifiedFiles, svcVars, worldVars, ran, reqLog,
               dlLog, checked, lastV, seenInCycle, delLog, cut>>

\* handleCreate, lines 607-618, and step 1 of uploadLargeFile, lines 398-466;
\* sessionOk: the request for the session URI succeeds
LargeStart ==
  /\ pc = "upload" /\ large.phase = "idle"
  /\ IsLarge(large.fileSize)
  /\ \E sessionOk \in BOOLEAN :
       LET l == [large EXCEPT !.via = "uploadLargeFile", !.verb = Verb(large.create)]
       IN large' = IF sessionOk THEN [l EXCEPT !.phase = "data"]
                   ELSE [l EXCEPT !.phase = "returned", !.result = "error",
                                  !.last = "noSession"]
  /\ UNCHANGED <<pc, upErr, largeOnly>>

\* handleCreate lines 619-627, handleSingleUpload lines 653-661: os.ReadFile
\* and the one request of uploadFile; readOk, sent: they succeed
SmallUpload ==
  /\ pc = "upload" /\ large.phase = "idle"
  /\ ~IsLarge(large.fileSize)
  /\ \E readOk \in BOOLEAN, sent \in BOOLEAN :
       large' = IF ~readOk
                THEN [large EXCEPT !.phase = "returned", !.result = "error",
                                   !.last = "readFile"]
                ELSE [large EXCEPT !.phase = "returned", !.via = "uploadFile",
                                   !.verb = Verb(large.create),
                                   !.result = IF sent THEN "nil" ELSE "error",
                                   !.last = "uploadFile"]
  /\ UNCHANGED <<pc, upErr, largeOnly>>

\* step 2 of uploadLargeFile: one pass of the loop
LargeTry ==
  /\ pc = "upload" /\ large.phase = "data"
  /\ \E kind \in {"newRequestErr", "doErr", "status400", "ok"}, bodyOk \in BOOLEAN,
        reply1 \in ProbeReplies(large.fileSize),
        reply2 \in ProbeReplies(large.fileSize) :
       large' = OneTry(large, kind, bodyOk, reply1, reply2)
  /\ UNCHANGED <<pc, upErr, largeOnly>>

\* handleCreate lines 615-618, handleUploads lines 713-716, main lines 147-153:
\* the error of uploadLargeFile is returned up to main
LargeReturn ==
  /\ pc = "upload" /\ large.phase = "returned"
  /\ large' = [large EXCEPT !.phase = "done"]
  /\ upErr' = (large.result = "error")
  /\ pc' = CASE large.result = "error" -> UploadErrorNext
             [] large.result = "panic" -> "crashed"
             [] OTHER -> "remoteScan"
  /\ UNCHANGED largeOnly

NextLarge ==
  \/ LargeStart
  \/ SmallUpload
  \/ LargeTry
  \/ LargeReturn

SpecLarge == InitLarge /\ [][NextLarge]_vars

(***************************************************************************)
(* The scoping of the upload index: fillUploadLookupMap on trees with      *)
(* nested folders and a file whose name has two dots in it.                *)
(***************************************************************************)
ScopeDot == <<"r", "d", "a..b">>
ScopeDirs == {<<"r">>, <<"r", "d">>, <<"r", "d", "e">>, <<"r", "u">>}
ScopeFiles == {<<"r", "d", "e", "g">>, <<"r", "u", "f">>, ScopeDot}
ScopePaths == ScopeDirs \cup ScopeFiles

\* the trees below the base folder: every entry lies in a folder of the tree
ScopeTrees ==
  {S \in SUBSET (ScopePaths \ {BaseLocal}) :
     \A p \in S : Dir(p) = BaseLocal \/ Dir(p) \in S}

ScopeLocal(S) ==
  [p \in ScopePaths |->
     IF p = BaseLocal \/ (p \in S /\ p \in ScopeDirs) THEN DirEntry(StartTime)
     ELSE IF p \in S THEN FileEntry(StartTime, "m1")
     ELSE NoEntry]

ScopeId(p) ==
  CASE p = BaseLocal -> BaseId
    [] p = <<"r", "d">> -> "b1"
    [] p = <<"r", "d", "e">> -> "b2"
    [] p = <<"r", "d", "e", "g">> -> "b3"
    [] p = <<"r", "u">> -> "b4"
    [] p = <<"r", "u", "f">> -> "b5"
    [] OTHER -> "b6"

ScopeRemote(S) ==
  {BaseItem} \cup
  {Item(ScopeId(p), Leaf(p), IF p \in ScopeDirs THEN FolderMime ELSE FileMime,
        StartTime, IF p \in ScopeDirs THEN "" ELSE "m1", <<ScopeId(Dir(p))>>,
        FALSE) : p \in S}

\* main, lines 137-141: the local scan has found pending paths; the pending
\* paths exist on the local side, with the folders they lie in
InitScope ==
  /\ Fresh
  /\ ids = 0
  /\ pc = "fillUp"
  /\ remoteModifiedFiles = <<>>
  /\ baseFolders = DriverBaseFolders
  /\ filesToDownload = EmptyMap
  /\ \E S \in ScopeTrees : local = ScopeLocal(S)
  /\ \E S \in ScopeTrees : remote = ScopeRemote(S)
  /\ filesToUpload \in (SUBSET {p \in ScopePaths \ {BaseLocal} : Exists(local, p)}) \ {{}}
  /\ envLeft = 0
  /\ calm = TRUE
  /\ large = LargeIdle(0)

NextScope ==
  \/ FillUpload
  \/ Upload

SpecScope == InitScope /\ [][NextScope]_vars

(***************************************************************************)
(* One upload batch and one download batch on trees with nested folders.   *)
(***************************************************************************)
BatchD == <<"r", "d">>
BatchE == <<"r", "d", "e">>
BatchG == <<"r", "d", "e", "g">>
BatchU == <<"r", "u">>
BatchF == <<"r", "u", "f">>
BatchDirs == {BaseLocal, BatchD, BatchE, BatchU}
BatchFiles == {BatchG, BatchF}
BatchPaths == BatchDirs \cup BatchFiles

\* the trees below the base folder: every entry lies in a folder of the tree
BatchTrees ==
  {S \in SUBSET (BatchPaths \ {BaseLocal}) :
     \A p \in S : Dir(p) = BaseLocal \/ Dir(p) \in S}

\* a local tree; its files were written after the remote ones, and after the
\* barrier of a batch that follows a Verified scan
LocalTree(S) ==
  [p \in BatchPaths |->
     IF p = BaseLocal \/ (p \in S /\ p \in BatchDirs) THEN DirEntry(StartTime)
     ELSE IF p \in S THEN FileEntry(StartTime + TicksPerSec, "m1")
     ELSE NoEntry]

\* the id of the remote item at a path of a remote tree
BatchId(p) ==
  CASE p = BaseLocal -> BaseId
    [] p = BatchD -> "b1"
    [] p = BatchE -> "b2"
    [] p = BatchG -> "b3"
    [] p = BatchU -> "b4"
    [] OTHER -> "b5"

RemoteTree(S) ==
  {BaseItem} \cup
  {Item(BatchId(p), Leaf(p), IF p \in BatchDirs THEN FolderMime ELSE FileMime,
        StartTime, IF p \in BatchDirs THEN "" ELSE "m2", <<BatchId(Dir(p))>>,
        FALSE) : p \in S}

InitBatch ==
  /\ Fresh
  /\ ids = 0
  /\ pc = "batch"
  /\ remoteModifiedFiles = <<>>
  /\ baseFolders = DriverBaseFolders
  /\ filesToDownload = EmptyMap
  /\ \E S \in BatchTrees : local = LocalTree(S)
  /\ \E S \in BatchTrees : remote = RemoteTree(S)
  /\ \/ filesToUpload = ScanAdded(local, {}, Sentinel)
     \/ filesToUpload = ScanAdded(local, fillLocalMap(local), StartTime)
  /\ envLeft = 0
  /\ calm = FALSE
  /\ large = LargeIdle(0)

\* fillUploadLookupMap and handleUploads on the pending uploads
BatchUpload ==
  /\ pc = "batch"
  /\ \E order \in Perms(PendingFiles(filesToUpload, local)),
        failing \in OneOf(filesToUpload) :
       LET index == fillUploadLookupMap(EmptyMap, remote, filesToUpload, {})
           r == handleUploads(filesToUpload, localFiles, index.m, remote, ids,
                              local, order, failing)
       IN /\ filesToUpload' = r.ftu
          /\ localFiles' = r.lf
          /\ uploadLookupMap' = r.batch.up
          /\ remote' = r.batch.remote
          /\ ids' = r.batch.ids
          /\ reqLog' = r.batch.log
          /\ upErr' = r.batch.err
  /\ pc' = "uploaded"
  /\ UNCHANGED <<large, verified, remoteModifiedFiles, baseFolders,
                 filesToDownload, downloadLookupMap, verifiedAt,
                 verifiedAtPlusOneSec, mostRecentTimestampSeen, cleanedAt,
                 local, now, envLeft, calm, ran, dlLog, checked, lastV, seenInCycle, delLog, cut>>

\* getRemoteModifiedFiles, fillDownloadLookupMap, checkForDownloads and
\* handleDownloads with the barrier at the sentinel
BatchDownload ==
  /\ pc \in {"batch", "uploaded"}
  /\ LET scan == getRemoteModifiedFiles(remote, Sentinel, mostRecentTimestampSeen)
         index == fillDownloadLookupMap(EmptyMap, scan.files, FALSE, remote, {})
         ftd == checkForDownloads(filesToDownload, index.m, local)
     IN /\ remoteModifiedFiles' = scan.files
        /\ mostRecentTimestampSeen' = scan.seen
        /\ downloadLookupMap' = index.m
        /\ filesToDownload' = ftd
        /\ \E refused \in SUBSET {p \in DOMAIN ftd : IsFolderMime(ftd[p].MimeType)},
              outcome \in [PendingDownloadFiles(ftd) -> {"ok", "pre", "mid"}],
              order \in Perms(PendingDownloadFiles(ftd)) :
             LET b == handleDownloads(ftd, local, localFiles, remote, now,
                                      refused, outcome, order)
             IN /\ local' = b.fs
                /\ localFiles' = b.lf
                /\ dlLog' = b.log
  /\ pc' = "downloaded"
  /\ UNCHANGED <<large, verified, baseFolders, filesToUpload, uploadLookupMap,
                 verifiedAt, verifiedAtPlusOneSec, cleanedAt, remote, ids, now,
                 envLeft, calm, ran, upErr, reqLog, checked, lastV, seenInCycle, delLog, cut>>

NextBatch ==
  \/ BatchUpload
  \/ BatchDownload

SpecBatch == InitBatch /\ [][NextBatch]_vars

(***************************************************************************)
(* The resolver on remote stores of any shape: items whose parents are a   *)
(* base folder, another item, a folder outside the base folders, an item   *)
(* that is gone, the empty id, or that have no parent.                     *)
(***************************************************************************)
SecondLocal == <<"s">>
SecondId == "S0"
TwoBaseFolders == (BaseLocal :> BaseId) @@ (SecondLocal :> SecondId)
\* the folder with id S0, which is a base folder under TwoBaseFolders only
SecondItem == Item(SecondId, "s", FolderMime, StartTime, "", <<>>, FALSE)
GoneId == "gone"

ResolverItem(id, name, mime, parents) ==
  Item(id, name, mime, StartTime + 1, IF IsFolderMime(mime) THEN "" ELSE "m1",
       parents, FALSE)
ParentChoices == {<<>>, <<"">>, <<BaseId>>, <<SecondId>>, <<GoneId>>}

\* three items; an item may lie in an item with a smaller number
ResolverStores ==
  {{BaseItem, SecondItem,
    ResolverItem("x1", "d", FolderMime, p1),
    ResolverItem("x2", "e", FolderMime, p2),
    ResolverItem("x3", "f", FileMime, p3)} :
     p1 \in ParentChoices,
     p2 \in ParentChoices \cup {<<"x1">>},
     p3 \in ParentChoices \cup {<<"x1">>, <<"x2">>}}

InitResolver ==
  /\ Fresh
  /\ ids = 0
  /\ pc = "resolve"
  /\ baseFolders \in {DriverBaseFolders, TwoBaseFolders}
  /\ remote \in ResolverStores
  /\ \E S \in SUBSET {"x1", "x2", "x3"} :
       remoteModifiedFiles = ListingOf({it \in remote : it.ID \in S})
  /\ filesToUpload = {}
  /\ filesToDownload = EmptyMap
  /\ local = EmptyLocal
  /\ envLeft = 0
  /\ calm = FALSE
  /\ large = LargeIdle(0)

\* clearDownloadLookupMap and fillDownloadLookupMap; ran keeps the inputs
Resolve ==
  /\ pc = "resolve"
  /\ \E failing \in OneOf({it.ID : it \in remote}), doExtraFolderSearch \in BOOLEAN :
       LET r == fillDownloadLookupMap(EmptyMap, remoteModifiedFiles,
                                      doExtraFolderSearch, remote, failing)
       IN /\ downloadLookupMap' = r.m
          /\ pc' = IF r.ok THEN "resolved" ELSE "failed"
          /\ ran' = [failing |-> failing, extra |-> doExtraFolderSearch]
  /\ UNCHANGED <<large, verified, remoteModifiedFiles, baseFolders, localFiles,
                 filesToUpload, filesToDownload, uploadLookupMap, verifiedAt,
                 verifiedAtPlusOneSec, mostRecentTimestampSeen, cleanedAt,
                 worldVars, upErr, reqLog, dlLog, checked, lastV, seenInCycle, delLog, cut>>

\* checkForDownloads on the index the resolver built
ResolverCheck ==
  /\ pc = "resolved"
  /\ filesToDownload' = checkForDownloads(filesToDownload, downloadLookupMap, local)
  /\ pc' = "planned"
  /\ UNCHANGED <<large, verified, remoteModifiedFiles, baseFolders, localFiles,
                 filesToUpload, uploadLookupMap, downloadLookupMap, verifiedAt,
                 verifiedAtPlusOneSec, mostRecentTimestampSeen, cleanedAt,
                 worldVars, ran, upErr, reqLog, dlLog, checked, lastV, seenInCycle, delLog, cut>>

NextResolver ==
  \/ Resolve
  \/ ResolverCheck

SpecResolver == InitResolver /\ [][NextResolver]_vars

(***************************************************************************)
(* The resolver on stores whose base folder lies in a folder of its own:   *)
(* the API then returns the base folder with a parents field.              *)
(***************************************************************************)
RootId == "root"
RootItem == Item(RootId, "u", FolderMime, StartTime, "", <<>>, FALSE)
\* the base folder as the API returns it when it lies in the folder root
BaseItemInRoot == [BaseItem EXCEPT !.Parents = <<RootId>>]
NestedItems == {"x1", "x2", "x3"}

\* three items below the base folder
NestedStores ==
  {{base, RootItem,
    ResolverItem("x1", "d", FolderMime, <<BaseId>>),
    ResolverItem("x2", "e", FolderMime, p2),
    ResolverItem("x3", "f", FileMime, p3)} :
     base \in {BaseItem, BaseItemInRoot},
     p2 \in {<<BaseId>>, <<"x1">>},
     p3 \in {<<BaseId>>, <<"x1">>, <<"x2">>}}

\* the modified items are any of the three and the base folder itself
InitNested ==
  /\ Fresh
  /\ ids = 0
  /\ pc = "resolve"
  /\ baseFolders = DriverBaseFolders
  /\ remote \in NestedStores
  /\ \E S \in SUBSET (NestedItems \cup {BaseId}) :
       remoteModifiedFiles = ListingOf({it \in remote : it.ID \in S})
  /\ filesToUpload = {}
  /\ filesToDownload = EmptyMap
  /\ local = EmptyLocal
  /\ envLeft = 0
  /\ calm = FALSE
  /\ large = LargeIdle(0)

SpecNested == InitNested /\ [][NextResolver]_vars

(***************************************************************************)
(* removeDeletedFiles on remote stores of any shape and under any          *)
(* configuration: folder-ids.txt with no line, one line or two lines.      *)
(***************************************************************************)
BaseFolderConfigs == {EmptyMap, DriverBaseFolders, TwoBaseFolders}

CleanupItem(id, name, mime, parents) ==
  Item(id, name, mime, StartTime, IF IsFolderMime(mime) THEN "" ELSE "m1",
       parents, TRUE)
CleanupParents == {<<>>, <<BaseId>>, <<SecondId>>, <<GoneId>>}

\* three items of the account; an item may lie in an item with a smaller number
CleanupStores ==
  {{BaseItem, SecondItem,
    CleanupItem("x1", "d", FolderMime, p1),
    CleanupItem("x2", "e", FolderMime, p2),
    CleanupItem("x3", "f", FileMime, p3)} :
     p1 \in CleanupParents,
     p2 \in CleanupParents \cup {<<"x1">>},
     p3 \in CleanupParents \cup {<<"x1">>, <<"x2">>}}

InitCleanup ==
  /\ Fresh
  /\ ids = 0
  /\ pc = "clean"
  /\ baseFolders \in BaseFolderConfigs
  /\ remote \in CleanupStores
  /\ remoteModifiedFiles = <<>>
  /\ filesToUpload = {}
  /\ filesToDownload = EmptyMap
  /\ local = EmptyLocal
  /\ envLeft = 0
  /\ calm = FALSE
  /\ large = LargeIdle(0)

\* the cycle that follows the cleanup starts
CleanupOver ==
  /\ pc = "end"
  /\ pc' = "sleep"
  /\ UNCHANGED <<large, verified, remoteModifiedFiles, svcVars, worldVars, histVars>>

NextCleanup ==
  \/ Cleanup
  \/ CleanupOver

SpecCleanup == InitCleanup /\ [][NextCleanup]_vars

(***************************************************************************)
(* The loop left alone: nobody changes a file or an item, every call       *)
(* succeeds, and the loop keeps running.  The clock stops at MaxTime.      *)
(***************************************************************************)
\* r/a on each side: absent, or a file with any of the times and contents
CalmTimes == StartTime..NewerTime
CalmLocals ==
  {EmptyLocal}
    \cup {[EmptyLocal EXCEPT ![PathA] = FileEntry(t, c)] : t \in CalmTimes, c \in Md5s}
    \cup {[EmptyLocal EXCEPT ![PathD] = DirEntry(StartTime),
                             ![PathF] = FileEntry(StartTime, "m1")]}
CalmRemotes ==
  {{BaseItem}}
    \cup {{BaseItem, Item(IdPool[1], "a", FileMime, t, c, <<BaseId>>, FALSE)} :
            t \in CalmTimes, c \in Md5s}

InitCalm ==
  /\ Fresh
  /\ pc = "boot"
  /\ remoteModifiedFiles = <<>>
  /\ baseFolders = DriverBaseFolders
  /\ filesToUpload = {}
  /\ filesToDownload = EmptyMap
  /\ local \in CalmLocals
  /\ remote \in CalmRemotes
  /\ ids = 1
  /\ envLeft = 0
  /\ calm = TRUE
  /\ large = LargeIdle(0)

NextCalm ==
  \/ Boot
  \/ Sleep
  \/ LocalScan
  \/ FillUpload
  \/ Upload
  \/ RemoteScan
  \/ FillDownload
  \/ CheckDownloads
  \/ Download
  \/ VerifyFillUp
  \/ VerifyFillDown
  \/ Verify
  \/ Cleanup

\* the positions of the loop
Positions ==
  {"scan", "fillUp", "upload", "remoteScan", "fillDown", "checkDown", "download",
   "vFillUp", "vFillDown", "verify", "clean", "end"}
\* the loop moves on: every step of NextCalm leads to another position
Advance == \E q \in Positions : q # pc /\ pc' = q

\* the loop never stops: time.Sleep returns and every call returns
SpecCalm == InitCalm /\ [][NextCalm]_vars /\ WF_pc(Advance)

(***************************************************************************)
(* One cycle and what follows it, from the local scan on, with every call  *)
(* succeeding.  r/a is in step on both sides; the shared folder also holds  *)
(* a folder d and a file d/f of the user.  The program is either at its     *)
(* first cycle or Verified with the barrier at the time of r/a.             *)
(***************************************************************************)
ScanTimes == StartTime..(StartTime + 2 * TicksPerSec)
ScanRemote(vt, td, tf) ==
  {BaseItem,
   Item(IdPool[1], "a", FileMime, vt, "m1", <<BaseId>>, TRUE),
   Item(IdPool[2], "d", FolderMime, td, "", <<BaseId>>, FALSE),
   Item(IdPool[3], "f", FileMime, tf, "m1", <<IdPool[2]>>, FALSE)}

InitScan ==
  /\ pc = "scan"
  /\ \E vt \in FileTimes, td \in ScanTimes, tf \in ScanTimes :
       /\ local = [EmptyLocal EXCEPT ![PathA] = FileEntry(vt, "m1")]
       /\ remote = ScanRemote(vt, td, tf)
       /\ \/ /\ verified = TRUE
             /\ verifiedAt = setVerifiedTime(vt).at
             /\ verifiedAtPlusOneSec = setVerifiedTime(vt).plus
             /\ mostRecentTimestampSeen = vt
             /\ lastV = vt
             /\ seenInCycle = ZeroTime
          \/ /\ verified = FALSE
             /\ verifiedAt = ZeroTime
             /\ verifiedAtPlusOneSec = ZeroTime
             /\ mostRecentTimestampSeen = ZeroTime
             /\ lastV = ZeroTime
             /\ seenInCycle = ZeroTime
  /\ localFiles = fillLocalMap(local)
  /\ remoteModifiedFiles = <<>>
  /\ baseFolders = DriverBaseFolders
  /\ filesToUpload = {}
  /\ filesToDownload = EmptyMap
  /\ uploadLookupMap = EmptyMap
  /\ downloadLookupMap = EmptyMap
  /\ cleanedAt = ZeroTime
  /\ now = StartTime
  /\ ids = 3
  /\ envLeft = 0
  /\ calm = TRUE
  /\ large = LargeIdle(0)
  /\ ran = {}
  /\ upErr = FALSE
  /\ reqLog = <<>>
  /\ dlLog = <<>>
  /\ checked = {}
  /\ delLog = NoCleanup
  /\ cut = {}

NextScan ==
  \/ Sleep
  \/ LocalScan
  \/ FillUpload
  \/ Upload
  \/ RemoteScan
  \/ FillDownload
  \/ CheckDownloads
  \/ Download
  \/ VerifyFillUp
  \/ VerifyFillDown
  \/ Verify
  \/ Cleanup

SpecScan == InitScan /\ [][NextScan]_vars

(***************************************************************************)
(* The cleanup gate over some days.  The clock starts at midnight; nothing  *)
(* changes on either side, so a cycle has nothing to do before the gate.    *)
(* The cycles are looked at every half hour.                                *)
(***************************************************************************)
GateDays == 3
TicksPerHour == 3600 * TicksPerSec
HalfHour == TicksPerHour \div 2
\* time.Time.Hour()
HourOf(t) == (t \div TicksPerHour) % 24
\* the program starts on the hour or on the half hour, early in the first day
GateStarts == {h * HalfHour : h \in 0..6}
GateEnd == GateDays * 24 * TicksPerHour

InitGate ==
  /\ pc = "clean"
  /\ now \in GateStarts
  /\ verified = FALSE
  /\ localFiles = fillLocalMap(EmptyLocal)
  /\ uploadLookupMap = EmptyMap
  /\ downloadLookupMap = EmptyMap
  /\ verifiedAt = Sentinel
  /\ verifiedAtPlusOneSec = Sentinel
  /\ mostRecentTimestampSeen = ZeroTime
  /\ cleanedAt = ZeroTime
  /\ ran = {}
  /\ upErr = FALSE
  /\ reqLog = <<>>
  /\ dlLog = <<>>
  /\ checked = {}
  /\ lastV = ZeroTime
  /\ seenInCycle = ZeroTime
  /\ delLog = NoCleanup
  /\ cut = {}
  /\ remoteModifiedFiles = <<>>
  /\ baseFolders = DriverBaseFolders
  /\ filesToUpload = {}
  /\ filesToDownload = EmptyMap
  /\ local = EmptyLocal
  /\ remote = {BaseItem}
  /\ ids = 0
  /\ envLeft = 0
  /\ calm = TRUE
  /\ large = LargeIdle(0)

\* main, lines 240-246, with the hour read from the clock
CleanupAtHour == CleanupGate(HourOf(now) = 2)

\* the sleep and the cycles up to the next half hour, in which the scans find
\* nothing and the verify section is passed by
IdleCycles ==
  /\ pc = "end"
  /\ now + HalfHour <= GateEnd
  /\ now' = now + HalfHour
  /\ pc' = "clean"
  /\ ran' = {}
  /\ delLog' = NoCleanup
  /\ UNCHANGED <<large, verified, remoteModifiedFiles, svcVars, local, remote, ids,
                 envLeft, calm, upErr, reqLog, dlLog, checked, lastV, seenInCycle, cut>>

NextGate ==
  \/ CleanupAtHour
  \/ IdleCycles

SpecGate == InitGate /\ [][NextGate]_vars

(***************************************************************************)
(* The daemon with a user who also removes a local path while a cycle is   *)
(* running, and writes one between two cycles.  Every call succeeds.       *)
(***************************************************************************)
VanishBudget == 2

InitVanish ==
  /\ Fresh
  /\ pc = "boot"
  /\ remoteModifiedFiles = <<>>
  /\ baseFolders = DriverBaseFolders
  /\ filesToUpload = {}
  /\ filesToDownload = EmptyMap
  /\ local = WithA(EmptyLocal)
  /\ remote \in {{BaseItem}, {BaseItem, RemoteA}}
  /\ ids = 1
  /\ envLeft = VanishBudget
  /\ calm = TRUE
  /\ large = LargeIdle(0)

\* the user removes a local path between two phases of a cycle
LocalDeleteInCycle ==
  /\ ~AtRest /\ envLeft > 0
  /\ \E p \in Paths \ {BaseLocal} :
       /\ Exists(local, p)
       /\ local' = Touch(RemoveTree(local, p), p, now)
  /\ envLeft' = envLeft - 1
  /\ UNCHANGED <<pc, calm, large, verified, remoteModifiedFiles, svcVars, remote,
                 ids, now, histVars>>

NextVanish ==
  \/ LocalDeleteInCycle
  \/ EnvLocalWrite
  \/ Boot
  \/ Sleep
  \/ LocalScan
  \/ FillUpload
  \/ Upload
  \/ RemoteScan
  \/ FillDownload
  \/ CheckDownloads
  \/ Download
  \/ VerifyFillUp
  \/ VerifyFillDown
  \/ Verify
  \/ Cleanup

SpecVanish == InitVanish /\ [][NextVanish]_vars

(***************************************************************************)
(* The daemon while the user saves local files during a cycle.             *)
(***************************************************************************)
\* the number of local files the user saves
EditBudget == 1

\* a local file and a newer remote file of the same name
InitEdit ==
  /\ Fresh
  /\ pc = "boot"
  /\ remoteModifiedFiles = <<>>
  /\ baseFolders = DriverBaseFolders
  /\ filesToUpload = {}
  /\ filesToDownload = EmptyMap
  /\ local \in {EmptyLocal, WithA(EmptyLocal)}
  /\ remote = {BaseItem, RemoteA}
  /\ ids = 1
  /\ envLeft = EditBudget
  /\ calm \in BOOLEAN
  /\ large = LargeIdle(0)

\* the user saves a local file between two phases of a cycle
LocalWriteInCycle ==
  /\ ~AtRest /\ envLeft > 0
  /\ \E p \in FilePaths, t \in FileTimes :
       \E c \in ContentsOf(p) :
         /\ IsDir(local, Dir(p))
         /\ local[p] # FileEntry(t, c)
         /\ local' = IF Exists(local, p)
                     THEN [local EXCEPT ![p] = FileEntry(t, c)]
                     ELSE Touch([local EXCEPT ![p] = FileEntry(t, c)], p, now)
  /\ envLeft' = envLeft - 1
  /\ UNCHANGED <<pc, calm, large, verified, remoteModifiedFiles, svcVars, remote,
                 ids, now, histVars>>

NextEdit ==
  \/ LocalWriteInCycle
  \/ EnvLocalWrite
  \/ Boot
  \/ Sleep
  \/ LocalScan
  \/ FillUpload
  \/ Upload
  \/ RemoteScan
  \/ FillDownload
  \/ CheckDownloads
  \/ Download
  \/ VerifyFillUp
  \/ VerifyFillDown
  \/ Verify
  \/ Cleanup

SpecEdit == InitEdit /\ [][NextEdit]_vars

(***************************************************************************)
(* The properties.                                                         *)
(***************************************************************************)
CycleOver == pc \in {"end", "sleep"}

\* C1: when handleUploads returns an error, the cycle is over at once: the
\* remote scan, checkForDownloads, handleDownloads and the verify phase do
\* not run in that cycle.
NoHalfUpload ==
  upErr => (CycleOver /\ ran = {"scan", "fillUp", "upload"})

\* a batch that created something and then failed
NoHalfUploadWitness ==
  /\ upErr /\ pc = "end"
  /\ Len(reqLog) >= 2
  /\ reqLog[1].ok /\ ~reqLog[Len(reqLog)].ok

\* C2: verifiedAt changes only in the verify step of a cycle, when
\* verifyUploads and verifyDownloads left filesToUpload and filesToDownload
\* empty; any other step leaves it as it is or sets it to the sentinel.
BarrierOnlyAtVerify ==
  [][verifiedAt' # verifiedAt =>
       \/ verifiedAt' = Sentinel
       \/ /\ pc = "verify" /\ pc' = "clean"
          /\ filesToUpload' = {} /\ DOMAIN filesToDownload' = {}]_vars

BarrierOnlyAtVerifyWitness ==
  /\ pc = "clean" /\ "verify" \in ran
  /\ verified /\ checked # {}
  /\ verifiedAt > Sentinel

\* C3: at the end of a cycle that ends Verified, verifiedAt is not older than
\* it was at the end of any earlier cycle that ended Verified. lastV holds the
\* barrier of every earlier cycle end, those a cleanup left not Verified too.
BarrierMonotone ==
  (CycleOver /\ verified) => verifiedAt >= lastV

\* a cycle verifies, a cleanup resets the barrier, the next cycle ends Verified
BarrierMonotoneWitness ==
  /\ pc = "end" /\ verified
  /\ cleanedAt # ZeroTime
  /\ lastV > Sentinel
  /\ verifiedAt > lastV

\* what C4 names as the reasons to remove a pending path
IndexedAndEqual(index, p) ==
  /\ p \in DOMAIN index
  /\ \/ IsFile(local, p) /\ local[p].md5 = index[p].Md5Checksum
     \/ /\ IsDir(local, p)
        /\ IsFolderMime(index[p].MimeType) \/ p \in DOMAIN baseFolders

\* C4: the verify step removes a path from filesToUpload or from
\* filesToDownload if and only if the path is in the rebuilt index and the
\* local MD5 equals the indexed one, or the local entry is a directory
\* matching a remote folder; a path whose lookup fails or whose local file
\* cannot be read stays.
AtMostOnceVerification ==
  [][pc = "verify" =>
       /\ \A p \in filesToUpload :
            p \notin filesToUpload' <=> IndexedAndEqual(uploadLookupMap, p)
       /\ \A p \in DOMAIN filesToDownload :
            p \notin DOMAIN filesToDownload' <=> IndexedAndEqual(downloadLookupMap, p)]_vars

\* the files at p on both sides carry the same content
SameContent(p) ==
  \A it \in RemoteAt(remote, p) :
    (IsFile(local, p) /\ ~IsFolderMime(it.MimeType)) => local[p].md5 = it.Md5Checksum

\* C5 as stated: at the end of every cycle, a path that is a local file and
\* a remote file has the same MD5 on both sides.
ContentIdentity ==
  pc = "end" => \A p \in Paths : SameContent(p)

\* C5: at the end of a cycle whose verification emptied both pending sets,
\* every path that verification examined and that is a local file and a
\* remote file has the same MD5 on both sides.
ContentIdentityAfterVerify ==
  (pc \in {"clean", "end"} /\ checked # {}) => \A p \in checked : SameContent(p)

\* a file fetched in the cycle and then verified
ContentIdentityAfterVerifyWitness ==
  /\ pc = "end" /\ PathA \in checked
  /\ "download" \in ran
  /\ IsFile(local, PathA)
  /\ \E it \in RemoteAt(remote, PathA) : it.Md5Checksum = local[PathA].md5

\* one log keeps the order of C6: the folder request at a path comes before
\* every request at a path below it
FoldersFirst(log, folderOp) ==
  \A i, j \in 1..Len(log) :
    (log[i].op = folderOp /\ IsProperPrefix(log[i].path, log[j].path)) => i < j

\* C6: in one handleUploads batch a folder is created before every folder
\* or file below it is created or updated; in one handleDownloads batch a
\* folder is made before every folder below it is made and before every
\* file below it is fetched.
FolderBeforeFile ==
  /\ FoldersFirst(reqLog, "createFolder")
  /\ FoldersFirst(dlLog, "mkdir")

\* an upload batch with a folder and its file, then a download batch with a
\* folder, the folder in it and the file in that
FolderBeforeFileWitness ==
  /\ pc = "downloaded"
  /\ \E i, j \in 1..Len(reqLog) :
       /\ reqLog[i] = Request("createFolder", BatchU, TRUE)
       /\ reqLog[j] = Request("createFile", BatchF, TRUE)
  /\ \E i, j, k \in 1..Len(dlLog) :
       /\ dlLog[i] = Request("mkdir", BatchD, TRUE)
       /\ dlLog[j] = Request("mkdir", BatchE, TRUE)
       /\ dlLog[k] = Request("download", BatchG, TRUE)

\* a key of C7: a base-folder path, or one followed by names of items
TiedKey(k) ==
  \E b \in DOMAIN baseFolders :
    /\ IsPrefix(b, k)
    /\ \A i \in (Len(b) + 1)..Len(k) : k[i] \in {it.Name : it \in remote}

\* a request of the resolver can fail: one was made to fail, or an item
\* names a parent that the store does not hold
CanFail ==
  \/ ran.failing # {}
  \/ \E it \in remote :
       /\ it.Parents # <<>> /\ it.Parents[1] # ""
       /\ ItemsById(remote, it.Parents[1]) = {}

\* C7: when fillDownloadLookupMap returns no error, every key of
\* downloadLookupMap, and so of filesToDownload, is a base-folder path or
\* such a path followed by item names; an item whose chain of parents does
\* not lead to a base folder is under no key, and it causes no error: an
\* error comes from a failed request only.
ResolverTieOff ==
  /\ pc \in {"resolved", "planned"} =>
       /\ \A k \in DOMAIN downloadLookupMap \cup DOMAIN filesToDownload : TiedKey(k)
       /\ \A it \in remote :
            RemotePathOf(remote, it) = <<>> =>
              \A k \in DOMAIN downloadLookupMap : downloadLookupMap[k].ID # it.ID
  /\ pc = "failed" => CanFail

\* a modified file in a folder outside the base folders is dropped, next to
\* a modified file that is planned for download
ResolverTieOffWitness ==
  /\ pc = "planned"
  /\ baseFolders = DriverBaseFolders
  /\ \E it \in remote :
       /\ it.ID = "x3" /\ it.Parents = <<SecondId>>
       /\ \E i \in 1..Len(remoteModifiedFiles) : remoteModifiedFiles[i].ID = "x3"
  /\ \E k \in DOMAIN filesToDownload : filesToDownload[k].ID = "x2" /\ Len(k) = 3

\* C8: no path whose name is desktop.ini is in filesToUpload, and no create
\* or update request is sent for such a path.
IgnoreRule ==
  /\ \A p \in filesToUpload : Leaf(p) # "desktop.ini"
  /\ \A i \in 1..Len(reqLog) : Leaf(reqLog[i].path) # "desktop.ini"

\* a batch uploaded a file while desktop.ini lay next to it
IgnoreRuleWitness ==
  /\ IsFile(local, PathI)
  /\ PathI \in localFiles
  /\ \E i \in 1..Len(reqLog) : reqLog[i] = Request("createFile", PathA, TRUE)

\* C9: after a failed try whose status probe reported N bytes with
\* 0 < N < fileSize, the next try seeks to N and sends Content-Length
\* fileSize - N and Content-Range "bytes N-(fileSize-1)/fileSize".
ResumeAtProbedOffset ==
  (large.req # NoRequest /\ 0 < large.resume /\ large.resume < large.fileSize) =>
     large.req = [seek |-> large.resume,
                  contentLength |-> large.fileSize - large.resume,
                  contentRange |-> <<large.resume, large.fileSize - 1, large.fileSize>>]

FailedTries == {"noSession", "newRequestErr", "doErr", "status400", "bodyErr"}

\* C10: one call makes at most 5 tries; a try with a status below 400 and a
\* readable body makes the call return nil; a call whose last try failed
\* with the upload incomplete, the fifth included, returns an error, and
\* handleUploads then returns an error and the cycle is over.
LargeRetryBound ==
  /\ large.try <= 5
  /\ large.try = 5 => large.phase \in {"returned", "done"}
  /\ large.last = "ok" => large.result = "nil"
  /\ (/\ large.phase \in {"returned", "done"}
      /\ large.last \in FailedTries
      /\ large.probed < large.fileSize) => large.result = "error"
  /\ (large.phase = "done" /\ large.result = "error") => (upErr /\ pc = "end")

\* five tries, the last one refused, and the cycle is over
LargeRetryBoundWitness ==
  /\ large.phase = "done" /\ large.try = 5
  /\ large.last = "status400" /\ large.result = "error"
  /\ upErr /\ pc = "end"

\* C11: when removeDeletedFiles gets past the index build and the listing, it
\* deletes an item of the account if and only if the item has a parent and
\* its first parent is the ID of no entry of the index; an item of the
\* account without parents is kept.
InIndex(index, id) == \E k \in DOMAIN index : index[k].ID = id
CleanupRetention ==
  delLog.listOk =>
    \A x \in delLog.listed :
       x.owned =>
         (x.ID \in delLog.requests
            <=> (x.Parents # <<>> /\ ~InIndex(delLog.index, x.Parents[1])))


\* C12: a step of the daemon removes an item from the remote store only in
\* the cleanup, and then only items that removeDeletedFiles asked to delete
\* (with what lies below them), all of them taken from the listing of that
\* same cleanup; scan, upload, download and verify delete nothing.
IdsOf(store) == {it.ID : it \in store}
RemoteDeletionConfined ==
  [][envLeft' = envLeft =>
       /\ IdsOf(remote) \ IdsOf(remote') # {} =>
            /\ pc = "clean" /\ delLog'.listOk
            /\ IdsOf(remote) \ IdsOf(remote') \subseteq Below(remote, delLog'.requests)
       /\ delLog' # delLog /\ delLog'.called =>
            /\ pc = "clean"
            /\ delLog'.requests \subseteq IdsOf(delLog'.listed)
            /\ delLog'.listOk => delLog'.listed = remote]_vars

RemoteDeletionConfinedWitness ==
  /\ pc = "end" /\ delLog.listOk
  /\ \E id \in delLog.requests : id \notin IdsOf(remote)
  /\ \E it \in remote : it.owned

\* C13: when fillLookupMap or getFilesOwnedByServiceAcct returns an error,
\* removeDeletedFiles calls deleteFileOrFolder for no item and the remote
\* store stays as it was.
CleanupAbortsOnError ==
  [][(delLog' # delLog /\ delLog'.called /\ ~(delLog'.indexOk /\ delLog'.listOk)) =>
       delLog'.requests = {} /\ remote' = remote]_vars

\* an item that a cleanup would delete is still there after a failed one
Orphan(x) == x.owned /\ x.Parents # <<>> /\ ~InIndex(delLog.index, x.Parents[1])
CleanupAbortsOnErrorWitness ==
  /\ delLog.called /\ delLog.indexOk /\ ~delLog.listOk
  /\ \E x \in remote : Orphan(x)

\* what C14 says of the batch in which a copy broke off: the target is not
\* there, handleDownloads did not add it to localFiles, it is still pending
CutLeavesNothing ==
  pc = "download" =>
    \A p \in Logged(dlLog', "downloadCut", FALSE) :
       /\ ~Exists(local', p)
       /\ p \in localFiles' => p \in localFiles
       /\ p \in DOMAIN filesToDownload'

\* C14 as stated: when downloadFile fails in the copy of the content, the
\* target path does not exist afterwards, handleDownloads does not add it to
\* localFiles, and the path stays in filesToDownload until a verification
\* removes it.
NoPartialFile ==
  [][/\ CutLeavesNothing
     /\ \A p \in cut \cap DOMAIN filesToDownload :
          p \notin DOMAIN filesToDownload' => pc = "verify"]_vars

\* C14, amended: the same, but checkForDownloads of a later cycle may also
\* take the path out of filesToDownload, when the path has come to exist
\* locally in the meantime.
NoPartialFileUnlessReplanned ==
  [][/\ CutLeavesNothing
     /\ \A p \in cut \cap DOMAIN filesToDownload :
          p \notin DOMAIN filesToDownload' =>
             \/ pc = "verify"
             \/ pc = "checkDown" /\ Exists(local, p)]_vars

\* a copy broke off, the file is not there, and the path is pending in the
\* next cycle too
NoPartialFileUnlessReplannedWitness ==
  /\ pc = "download" /\ now > StartTime
  /\ \E p \in cut : p \in DOMAIN filesToDownload /\ ~Exists(local, p) /\ p \notin localFiles

\* C15: when no file and no item changes and every call succeeds, the loop
\* comes to the end of a cycle with filesToUpload and filesToDownload empty
\* and the state Verified, whatever the times and contents at the start.
ForwardProgress ==
  <>(/\ CycleOver /\ verified
     /\ filesToUpload = {} /\ DOMAIN filesToDownload = {})

\* the race of C16 at path p: a known local file, newer than the barrier
\* vAt, and a remote file at p that is newer than the local one by more than
\* the slack and has another MD5
Race(p, vAt) ==
  /\ p \in localFiles /\ IsFile(local, p)
  /\ local[p].mtime > vAt
  /\ \E it \in RemoteAt(remote, p) :
       /\ it.ModifiedTime - local[p].mtime > Slack
       /\ it.Md5Checksum # local[p].md5
RaceIsPlanned ==
  (pc = "scan" /\ Race(PathA, IF verified THEN verifiedAt ELSE Sentinel)) =>
     PathA \in filesToUpload'

\* C16 as stated: in the race the cycle puts the path in filesToUpload, the
\* upload executor updates the remote file with the local content, and
\* verification then finds the remote MD5 equal to the local MD5.
RaceLocalWins ==
  [][/\ RaceIsPlanned
     /\ (pc = "upload" /\ Race(PathA, verifiedAt) /\ PathA \in filesToUpload) =>
          /\ PathA \in Logged(reqLog', "update", TRUE)
          /\ \A it \in RemoteAt(remote', PathA) : it.Md5Checksum = local[PathA].md5
     /\ (pc = "verify" /\ PathA \in Logged(reqLog, "update", TRUE)) =>
          PathA \notin filesToUpload']_vars

\* C16, amended: in the race the cycle puts the path in filesToUpload, the
\* upload executor sends nothing for it and leaves the remote file as it is,
\* checkForDownloads plans its download, the download puts the remote
\* content and time on the local file, and verification then finds the MD5s
\* equal and removes the path from both pending sets.
RaceRemoteWins ==
  [][/\ RaceIsPlanned
     /\ (pc = "upload" /\ Race(PathA, verifiedAt) /\ PathA \in filesToUpload) =>
          /\ \A i \in 1..Len(reqLog') : reqLog'[i].path # PathA
          /\ RemoteAt(remote', PathA) = RemoteAt(remote, PathA)
     /\ (pc = "checkDown" /\ Race(PathA, verifiedAt)
           /\ PathA \in DOMAIN downloadLookupMap) =>
          PathA \in DOMAIN filesToDownload'
     /\ (pc = "download" /\ Race(PathA, verifiedAt)
           /\ PathA \in DOMAIN filesToDownload) =>
          \A it \in RemoteAt(remote, PathA) :
             /\ local'[PathA].md5 = it.Md5Checksum
             /\ local'[PathA].mtime = it.ModifiedTime
     /\ (pc = "verify" /\ PathA \in filesToUpload
           /\ PathA \in Logged(dlLog, "download", TRUE)) =>
          /\ PathA \notin filesToUpload'
          /\ PathA \notin DOMAIN filesToDownload']_vars

\* the race has run its course: no request for the path, a download, and a
\* verification that examined it
RaceRemoteWinsWitness ==
  /\ pc = "clean" /\ verified
  /\ PathA \in checked
  /\ "upload" \in ran
  /\ \A i \in 1..Len(reqLog) : reqLog[i].path # PathA
  /\ PathA \in Logged(dlLog, "download", TRUE)
  /\ local[PathA].md5 = "m2" /\ local[PathA].mtime = NewerTime

\* C17: a folder that handleCreate created is in uploadLookupMap under its
\* new id, and every folder or file directly below it that the same batch
\* created afterwards has that id as its only parent.
Creates == {"createFolder", "createFile"}
ParentInSameBatch ==
  \A i \in 1..Len(reqLog) :
    reqLog[i] = Request("createFolder", reqLog[i].path, TRUE) =>
      /\ reqLog[i].path \in DOMAIN uploadLookupMap
      /\ \E it \in remote :
           /\ it.owned /\ it.ID = uploadLookupMap[reqLog[i].path].ID
           /\ IsFolderMime(it.MimeType) /\ it.Name = Leaf(reqLog[i].path)
      /\ \A j \in 1..Len(reqLog) :
           (reqLog[j].ok /\ reqLog[j].op \in Creates
              /\ Dir(reqLog[j].path) = reqLog[i].path) =>
             /\ i < j
             /\ \E it \in remote :
                  /\ it.owned /\ it.Name = Leaf(reqLog[j].path)
                  /\ it.Parents = <<uploadLookupMap[reqLog[i].path].ID>>

\* one batch creates a new folder, the folder in it and the file in that
ParentInSameBatchWitness ==
  /\ pc = "uploaded" /\ ~upErr
  /\ reqLog = <<Request("createFolder", BatchD, TRUE),
                Request("createFolder", BatchE, TRUE),
                Request("createFile", BatchG, TRUE)>>
  /\ RemoteAt(remote, BatchG) # {}

\* the upload or the download executor wrote something in this cycle
WroteThisCycle ==
  \/ \E i \in 1..Len(reqLog) : reqLog[i].ok
  \/ \E i \in 1..Len(dlLog) : dlLog[i].ok

\* C18: a cycle in which an executor wrote something does not run the verify
\* phase, so the barrier is not advanced in it.
NoVerifyAfterWrite == WroteThisCycle => "verify" \notin ran

\* C19: a verify phase that leaves a pending set non-empty keeps the barrier
\* and leaves the driver NotVerified, whatever it was before.
VerifyFailureMarksNotVerified ==
  [][(pc = "verify" /\ pc' # "verify"
        /\ ~VerifiedBoth(filesToUpload', filesToDownload')) =>
       (verifiedAt' = verifiedAt /\ ~verified')]_vars

\* C20: once the barrier has been assigned, verifiedAtPlusOneSec is one
\* second after verifiedAt, also while the barrier holds the sentinel.
BarrierAssigned == verifiedAt # ZeroTime
BarrierPair == BarrierAssigned => verifiedAtPlusOneSec = verifiedAt + TicksPerSec

\* the positions of a cycle between the local scan and the end of the verify
InCycle ==
  pc \in {"fillUp", "upload", "remoteScan", "fillDown", "checkDown", "download",
          "vFillUp", "vFillDown", "verify"}

\* C20, as the code has it: verifiedAtPlusOneSec is one second after
\* verifiedAt whenever the driver is Verified; in a cycle that began
\* NotVerified both fields hold the sentinel and are equal until the verify
\* phase succeeds; no other pair occurs once the barrier has been assigned.
BarrierPairOrSentinel ==
  /\ verified => verifiedAtPlusOneSec = verifiedAt + TicksPerSec
  /\ (InCycle /\ ~verified) =>
       (verifiedAt = Sentinel /\ verifiedAtPlusOneSec = Sentinel)
  /\ BarrierAssigned =>
       verifiedAtPlusOneSec \in {verifiedAt, verifiedAt + TicksPerSec}

\* a barrier that had been advanced is back at the sentinel, and so is
\* verifiedAtPlusOneSec
BarrierPairOrSentinelWitness ==
  /\ InCycle /\ ~verified /\ lastV > Sentinel
  /\ verifiedAt = Sentinel /\ verifiedAtPlusOneSec = Sentinel

\* the ids of the items the last remote scan returned
ModifiedIds == {remoteModifiedFiles[i].ID : i \in 1..Len(remoteModifiedFiles)}
\* downloadLookupMap has just been filled from remoteModifiedFiles
DownloadIndexFresh ==
  pc = "checkDown" \/ (pc = "verify" /\ "vFillDown" \in ran)
\* an entry that only getItemsInSharedFolder can have brought: not a base
\* folder, not modified, and nothing of the index lies in it
ListedAsChild(p) ==
  /\ p \in DOMAIN downloadLookupMap /\ p \notin DOMAIN baseFolders
  /\ downloadLookupMap[p].ID \notin ModifiedIds
  /\ \A q \in DOMAIN downloadLookupMap :
       downloadLookupMap[q].Parents # <<downloadLookupMap[p].ID>>
\* every item in a modified folder is in the index
ChildrenOfModifiedListed ==
  \A i \in 1..Len(remoteModifiedFiles) :
    IsFolderMime(remoteModifiedFiles[i].MimeType) =>
      \A it \in ChildrenOf(remote, remoteModifiedFiles[i].ID) :
        \E p \in DOMAIN downloadLookupMap : downloadLookupMap[p].ID = it.ID

\* C21: the children of a modified folder are listed only in a cycle whose
\* barrier is at the sentinel.
ExtraSearchOnlyAtSentinel ==
  DownloadIndexFresh =>
    \A p \in Paths : ListedAsChild(p) => verifiedAt = Sentinel

\* C21, as the code has it: the children of a modified folder are listed
\* exactly in the cycles that run Verified, with an advanced barrier.
ExtraSearchOnlyWhenVerified ==
  DownloadIndexFresh =>
    /\ \A p \in Paths : ListedAsChild(p) => (verified /\ verifiedAt # Sentinel)
    /\ verified => ChildrenOfModifiedListed

\* a Verified cycle finds the folder d modified and lists the file in it,
\* which the scan did not return
ExtraSearchOnlyWhenVerifiedWitness ==
  /\ pc = "checkDown" /\ verified /\ verifiedAt # Sentinel
  /\ ModifiedIds = {IdPool[2]}
  /\ ListedAsChild(PathF)

\* a cleanup run: removeDeletedFiles was called in this step
CleanupRuns == delLog'.called /\ ~delLog.called
TwentyFourHours == 24 * TicksPerHour
TwentyThreeHours == 23 * TicksPerHour
\* the gate as C22 words it: hour 2 and at least 14 hours since cleanedAt
GateAtLeast14 ==
  HourOf(now) = 2 /\ (cleanedAt = ZeroTime \/ now - cleanedAt >= FourteenHours)

\* C22: cleanup runs at the end of a cycle exactly when the hour is 2 and at
\* least 14 hours have passed since cleanedAt, and two cleanup runs are at
\* least 24 hours apart.
CleanupGate24 ==
  [][pc = "clean" =>
       /\ CleanupRuns <=> GateAtLeast14
       /\ (CleanupRuns /\ cleanedAt # ZeroTime) =>
            cleanedAt' - cleanedAt >= TwentyFourHours]_vars

\* C22, as the code has it: the same gate, and two cleanup runs are more
\* than 23 hours apart.
CleanupGate23 ==
  [][pc = "clean" =>
       /\ CleanupRuns <=> GateAtLeast14
       /\ CleanupRuns => cleanedAt' = now
       /\ (CleanupRuns /\ cleanedAt # ZeroTime) =>
            cleanedAt' - cleanedAt > TwentyThreeHours]_vars

\* a second cleanup has run, less than 24 hours after the one before it: the
\* clock is in hour 2 of a later day and cleanedAt is the clock
CleanupGate23Witness ==
  /\ pc = "end" /\ delLog.called /\ cleanedAt = now
  /\ now >= TwentyFourHours /\ HourOf(now) = 2
  /\ \E t \in GateStarts : HourOf(t) = 2 /\ now - t < TwentyFourHours

\* C23: cleanedAt changes only in a cleanup run that built the index and
\* listed the items; a run that aborts on an error leaves it as it was.
CleanedAtOnlyOnSuccess ==
  [][cleanedAt' # cleanedAt => (delLog'.called /\ delLog'.indexOk /\ delLog'.listOk)]_vars

\* what C24 names as the reason to queue a walked path, at barrier vAt
LocallyModified(p, vAt) ==
  /\ Leaf(p) # "desktop.ini"
  /\ p \notin localFiles \/ local[p].mtime > vAt

\* C24: one local scan queues a walked path exactly when its name is not
\* desktop.ini and it is unknown or dated after the barrier; an unknown path
\* becomes known; a known path dated at the barrier is not queued; no queued
\* path is newer than mostRecentTimestampSeen afterwards.
LocalChangeDetection ==
  [][pc = "scan" =>
       /\ \A p \in Paths :
            /\ (p \in Walked(local) /\ LocallyModified(p, verifiedAt')) =>
                 (p \in filesToUpload' /\ p \in localFiles'
                    /\ local[p].mtime <= mostRecentTimestampSeen')
            /\ p \in filesToUpload' \ filesToUpload =>
                 (p \in Walked(local) /\ LocallyModified(p, verifiedAt'))
            /\ p \in localFiles' \ localFiles =>
                 (p \in Walked(local) /\ Leaf(p) # "desktop.ini")
       /\ filesToUpload \subseteq filesToUpload'
       /\ localFiles \subseteq localFiles']_vars

\* a Verified cycle has scanned: the known r/a, dated at the barrier, is not
\* queued, and the new folder r/d is queued although it is not dated after
\* the barrier
LocalChangeDetectionWitness ==
  /\ pc = "fillUp" /\ verified /\ ran = {"scan"}
  /\ PathA \in localFiles /\ local[PathA].mtime = verifiedAt
  /\ PathA \notin filesToUpload
  /\ PathD \in filesToUpload /\ local[PathD].mtime <= verifiedAt

\* the items of the store dated t
DatedAt(t) == {it \in remote : it.ModifiedTime = t}
WholeSecond(t) == t % TicksPerSec = 0

PendingIndexedFiles ==
  {p \in filesToUpload : p \in DOMAIN uploadLookupMap /\ local[p].kind = "file"}
\* how far the local mtime of p lies after the indexed modifiedTime
NewerBy(p) == local[p].mtime - uploadLookupMap[p].ModifiedTime
Md5Differs(p) == local[p].md5 # uploadLookupMap[p].Md5Checksum

\* C26: handleUploads sends an update for a pending file of the index exactly
\* when the local mtime is more than 0.5 s after the indexed modifiedTime and
\* the MD5 sums differ.
UploadSlack ==
  [][pc = "upload" =>
       \A p \in PendingIndexedFiles :
         (\E i \in 1..Len(reqLog') : reqLog'[i].op = "update" /\ reqLog'[i].path = p)
           <=> (NewerBy(p) > Slack /\ Md5Differs(p))]_vars

\* r/a was pending and newer than the indexed copy by no more than 0.5 s, with
\* another MD5 sum: the batch sent nothing
UploadSlackWitness ==
  /\ pc = "remoteScan" /\ "upload" \in ran /\ reqLog = <<>>
  /\ PathA \in PendingIndexedFiles
  /\ NewerBy(PathA) > 0 /\ NewerBy(PathA) <= Slack /\ Md5Differs(PathA)

\* C27: a file of at most 5 MiB goes through uploadFile, a larger one through
\* uploadLargeFile; the request that starts the upload is a POST when the file
\* is created and a PATCH when it is updated.
UploadDispatch ==
  large.via # "none" =>
    /\ large.fileSize <= 5 * 1024 * 1024 <=> large.via = "uploadFile"
    /\ large.fileSize > 5 * 1024 * 1024 <=> large.via = "uploadLargeFile"
    /\ large.create <=> large.verb = "POST"
    /\ ~large.create <=> large.verb = "PATCH"

\* a file of exactly 5 MiB was updated through uploadFile with a PATCH
UploadDispatchWitness ==
  /\ large.fileSize = 5 * 1024 * 1024 /\ ~large.create
  /\ large.via = "uploadFile" /\ large.verb = "PATCH" /\ large.result = "nil"

\* no request of the upload batch failed and an id was left for every create
NoFailedRequest ==
  /\ \A i \in 1..Len(reqLog) : reqLog[i].ok
  /\ ids < Len(IdPool)

\* C28: a pending entry whose parent is not in uploadLookupMap is passed
\* over: no request is sent for it, it stays pending, handleUploads returns no
\* error on its account and has dealt with the other pending entries.
MissingParentSkipsEntry ==
  (pc = "uploaded" /\ NoFailedRequest) =>
    /\ ~upErr
    /\ \A q \in filesToUpload :
         (Exists(local, q) /\ Dir(q) \in DOMAIN uploadLookupMap) =>
           q \in DOMAIN uploadLookupMap \/ RemoteAt(remote, q) # {}

\* C29: a pending upload path whose stat fails is removed from filesToUpload
\* and from localFiles, in handleUploads as in verifyUploads.
VanishedPathForgotten ==
  [][\A p \in Paths :
       (pc \in {"upload", "verify"} /\ p \in filesToUpload /\ ~Exists(local, p)) =>
         (p \notin filesToUpload' /\ p \notin localFiles')]_vars

\* C30: a file to upload that cannot be read is dropped from filesToUpload
\* for this cycle and nothing else is affected: handleUploads returns no
\* error and the cycle goes on with the remote scan.
ReadFailureIsLocal ==
  (large.phase = "done" /\ large.last = "readFile") =>
    (~upErr /\ pc = "remoteScan" /\ PathA \notin filesToUpload)

\* the phases of a cycle that come after the given index build
PhasesAfter(phase) ==
  CASE phase = "fillUp" -> {"upload", "remoteScan", "fillDown", "checkDown",
                            "download", "vFillUp", "vFillDown", "verify", "clean"}
    [] phase = "fillDown" -> {"checkDown", "download", "vFillUp", "vFillDown",
                              "verify", "clean"}
    [] phase = "vFillUp" -> {"vFillDown", "verify", "clean"}
    [] phase = "vFillDown" -> {"verify", "clean"}
IndexBuilds == {"fillUp", "fillDown", "vFillUp", "vFillDown"}
FailedBuilds == {phase \in IndexBuilds : FailedMark(phase) \in ran}

\* C31: when fillUploadLookupMap or fillDownloadLookupMap returns an error
\* the cycle is over: none of the phases that come after that index build
\* runs in the same cycle, and the barrier stays as it is until the next one.
IndexFailureAborts ==
  /\ [](\A phase \in FailedBuilds :
          pc \in {"end", "sleep"} /\ ran \cap PhasesAfter(phase) = {})
  /\ [][FailedBuilds # {} =>
          (verifiedAt' = verifiedAt /\ verifiedAtPlusOneSec' = verifiedAtPlusOneSec
           /\ verified' = verified)]_vars

\* the index build of the verify section failed after the uploads had run
IndexFailureAbortsWitness ==
  /\ FailedMark("vFillUp") \in ran /\ "upload" \in ran
  /\ reqLog # <<>> /\ pc = "end"

\* C32: the status probe returns fileSize for status 200 or 201, N + 1 for
\* status 308 with the header Range: 0-N, 0 for status 308 without a Range
\* header and an error for any other status or a failed request; after an
\* error of the probe uploadLargeFile returns the error and sends no more data.
SessionProbe ==
  large.reply # NoReply =>
    LET reply == large.reply
    IN /\ (~reply.err /\ reply.status \in {200, 201}) =>
            large.probed = large.fileSize
       /\ (~reply.err /\ reply.status = 308 /\ reply.rangeLast # NoProbe) =>
            large.probed = reply.rangeLast + 1
       /\ (~reply.err /\ reply.status = 308 /\ reply.rangeLast = NoProbe) =>
            large.probed = 0
       /\ (reply.err \/ reply.status \notin {200, 201, 308}) =>
            /\ large.phase \in {"returned", "done"}
            /\ large.result = "error"
            /\ large.probed = NoProbe

\* the probe found the first 4 MiB acknowledged and the loop goes on
SessionProbeWitness ==
  /\ large.reply = [err |-> FALSE, status |-> 308, rangeLast |-> Chunk - 1]
  /\ large.probed = Chunk /\ large.phase = "data" /\ large.try = 2

\* the pending path is the folder itself or lies below it
AtOrBelow(folder, pending) == \E p \in pending : IsPrefix(folder, p)
\* the remote folders that have items in them, with their local paths
FilledFolders ==
  {it \in remote : IsFolderMime(it.MimeType) /\ ChildrenOf(remote, it.ID) # {}
                   /\ RemotePathOf(remote, it) # <<>>}
\* the items of the folder are in the upload index
ListedInIndex(it) ==
  \A c \in ChildrenOf(remote, it.ID) :
     Join(RemotePathOf(remote, it), c.Name) \in DOMAIN uploadLookupMap

\* C33: localPathIsNeeded(folder, pending) is true if and only if some
\* pending path is the folder itself or lies below it, and
\* fillUploadLookupMap lists exactly the folders for which this holds.
ScopingTest ==
  pc = "upload" =>
    /\ \A folder \in ScopeDirs :
         localPathIsNeeded(folder, filesToUpload) <=> AtOrBelow(folder, filesToUpload)
    /\ \A it \in FilledFolders :
         ListedInIndex(it) <=> AtOrBelow(RemotePathOf(remote, it), filesToUpload)

\* the verify step that calls setVerifiedTime
BarrierSet ==
  /\ pc = "verify" /\ pc' = "clean"
  /\ VerifiedBoth(filesToUpload', filesToDownload')

\* C34 as stated: whenever the barrier is advanced, the new verifiedAt is the
\* newest modification time that the local scan and the remote scan of the
\* current cycle observed; what earlier cycles observed does not count.
MostRecentSeenPerCycle ==
  [][(BarrierSet /\ verifiedAt' # verifiedAt) => verifiedAt' = seenInCycle]_vars

\* C34: mostRecentTimestampSeen is never reset: it is the newest modification
\* time observed by any scan since the daemon started. Whenever the barrier
\* is advanced, the new verifiedAt is that running maximum, which is not
\* older than what the scans of the current cycle observed.
MostRecentSeenRunning ==
  [][/\ mostRecentTimestampSeen' >= mostRecentTimestampSeen
     /\ mostRecentTimestampSeen' >= seenInCycle'
     /\ BarrierSet => verifiedAt' = mostRecentTimestampSeen']_vars

\* a cycle ended Verified with a barrier newer than anything its scans saw
MostRecentSeenRunningWitness ==
  /\ pc = "clean" /\ "verify" \in ran /\ verified /\ checked # {}
  /\ seenInCycle > ZeroTime
  /\ verifiedAt > seenInCycle

\* the cycle ended through a continue of main
Aborted == pc \in {"end", "sleep"} /\ "scan" \in ran /\ "clean" \notin ran

\* C35 as stated: a cycle that aborts does not advance verifiedAt and takes
\* no path out of filesToUpload or filesToDownload except paths whose local
\* stat failed; what is pending at the abort is pending when the executors
\* of the next cycle start.
UnfinishedWorkSurvives ==
  /\ [](Aborted => ("verify" \notin ran /\ DroppedMark \notin ran))
  /\ [][pc # "verify" =>
          \A p \in filesToUpload \ filesToUpload' : pc = "upload" /\ ~Exists(local, p)]_vars
  /\ [][Aborted =>
          /\ verifiedAt' = verifiedAt
          /\ filesToUpload' = filesToUpload /\ filesToDownload' = filesToDownload]_vars

\* C35: a cycle that aborts does not advance verifiedAt; it takes out of
\* filesToUpload only paths whose local stat failed, and out of
\* filesToDownload only paths that checkForDownloads found in the download
\* index and not in need of a download. Nothing else leaves the two
\* collections before the verify step of a later cycle.
UnfinishedWorkKept ==
  /\ [](Aborted => "verify" \notin ran)
  /\ [][pc # "verify" =>
          /\ \A p \in filesToUpload \ filesToUpload' :
               pc = "upload" /\ ~Exists(local, p)
          /\ \A p \in (DOMAIN filesToDownload) \ (DOMAIN filesToDownload') :
               /\ pc = "checkDown"
               /\ p \in DOMAIN downloadLookupMap
               /\ ~WantsDownload(local, p, downloadLookupMap[p])]_vars
  /\ [][Aborted =>
          /\ verifiedAt' = verifiedAt
          /\ filesToUpload' = filesToUpload /\ filesToDownload' = filesToDownload]_vars

\* checkForDownloads took a path out of filesToDownload and the index build
\* of the verify section failed
UnfinishedWorkKeptWitness ==
  /\ Aborted /\ DroppedMark \in ran
  /\ FailedBuilds # {}

\* the modified items of the list, as items of the store
ModifiedItems ==
  {it \in remote : \E i \in 1..Len(remoteModifiedFiles) : remoteModifiedFiles[i].ID = it.ID}

\* C36: for every list of modified items, a list with a base folder that has
\* a parents field too, an item whose chain of parents[0] reaches a
\* base-folder id is indexed under the local path of the base folder followed
\* by the names along the chain, and the base-folder id is indexed under its
\* local path.
PathTieOff ==
  pc \in {"resolved", "planned"} =>
    /\ \A b \in DOMAIN baseFolders :
         b \in DOMAIN downloadLookupMap /\ downloadLookupMap[b].ID = baseFolders[b]
    /\ \A it \in ModifiedItems :
         LET path == RemotePathOf(remote, it)
         IN path # <<>> =>
              path \in DOMAIN downloadLookupMap /\ downloadLookupMap[path].ID = it.ID

\* C37: when a try of uploadLargeFile fails, by a transport error, a status
\* of 400 or more or a body that cannot be read, and the status probe that
\* follows reports the upload complete (200 or 201), the call returns nil:
\* no further try is made and the daemon does not crash.
ProbeReportsCompletion ==
  (/\ large.last \in {"doErr", "status400", "bodyErr"}
   /\ ~large.reply.err /\ large.reply.status \in {200, 201}) =>
     /\ large.phase \in {"returned", "done"}
     /\ large.result = "nil"
     /\ pc # "crashed"

\* the paths from the base folder down to p
UpTo(p) == {SubSeq(p, 1, k) : k \in 1..Len(p)}

\* C38: after a successful fillUploadLookupMap every remote item that lies
\* at a pending path, or at a folder on the way to it from the base folder,
\* is under a key of uploadLookupMap; handleUploads sends a create for a path
\* only if the remote store held no item at that path.
NoDuplicateCreation ==
  /\ pc = "upload" =>
       \A p \in filesToUpload : \A q \in UpTo(p) :
          RemoteAt(remote, q) # {} => q \in DOMAIN uploadLookupMap
  /\ \A i \in 1..Len(reqLog) :
       (reqLog[i].op \in {"createFolder", "createFile"} /\ reqLog[i].ok) =>
          Cardinality(RemoteAt(remote, reqLog[i].path)) = 1

\* the existing local files that the download step overwrites
Overwritten ==
  {p \in Logged(dlLog', "download", TRUE) : IsFile(local, p)}

\* C39: handleDownloads overwrites an existing local file only if, when the
\* download is made, the remote modifiedTime is more than 0.5 s after the
\* local modification time and the MD5s differ; this holds for the entries
\* that an earlier cycle left in filesToDownload too.
NoClobber ==
  [][pc = "download" =>
       \A p \in Overwritten :
          /\ filesToDownload[p].ModifiedTime - local[p].mtime > Slack
          /\ getMd5OfFile(local, p) # filesToDownload[p].Md5Checksum]_vars

\* the files that the cycle that has just ended downloaded and verified
DownloadedAndVerified == Logged(dlLog, "download", TRUE) \cap checked
\* what the local scan of the next cycle adds to filesToUpload
NextScanAdds ==
  ScanAdded(local, localFiles, IF verified THEN verifiedAt ELSE resetVerifiedTime.at)
\* the next cycle starts and the user has changed nothing since the cycle ended
NextCycleStarts == pc = "end" /\ pc' = "scan"
\* a create or an update is sent for a file whose content the remote store has
EchoRequest ==
  \E i \in 1..Len(reqLog') :
     /\ reqLog'[i].op \in {"createFile", "update"}
     /\ IsFile(local, reqLog'[i].path)
     /\ \E it \in RemoteAt(remote, reqLog'[i].path) :
          it.Md5Checksum = getMd5OfFile(local, reqLog'[i].path)

\* C40 as stated: after a cycle that downloaded a file and verified, the
\* local scan of the next cycle does not add the file to filesToUpload unless
\* it was changed locally in between, and no create or update is sent for a
\* file whose content equals the remote content.
NoUploadEcho ==
  /\ [][NextCycleStarts => DownloadedAndVerified \cap NextScanAdds = {}]_vars
  /\ [][pc = "upload" => ~EchoRequest]_vars

\* C40: after a cycle that downloaded a file and verified, and whose cleanup
\* section did not run, the local scan of the next cycle does not add the
\* file to filesToUpload unless it was changed locally in between; when the
\* cleanup section ran the state is not Verified and the next scan adds the
\* file. In both cases no create or update is sent for a file whose content
\* equals the remote content.
NoUploadEchoWhileVerified ==
  /\ [][NextCycleStarts =>
          IF verified THEN DownloadedAndVerified \cap NextScanAdds = {}
          ELSE DownloadedAndVerified \subseteq NextScanAdds]_vars
  /\ [][pc = "upload" => ~EchoRequest]_vars

\* a cycle downloaded the file a and ended Verified
NoUploadEchoWhileVerifiedWitness ==
  /\ pc = "end" /\ verified
  /\ PathA \in DownloadedAndVerified
  /\ local[PathA].mtime = verifiedAt

====
